---------------------------- MODULE Spec2Model ----------------------------
(***************************************************************************)
(* Model of the Stash video hasher node: the tag-based claim protocol of   *)
(* scene_discovery.py / scene_processor.py / stash_utils.py run by several *)
(* nodes against one catalog (specification Spec), and the batch           *)
(* orchestrator of phash_videohasher_main.py with its worker pool, result  *)
(* loop, per-scene timeout and shutdown flag (specification OrchSpec).     *)
(***************************************************************************)
EXTENDS Integers, Sequences, FiniteSets, TLC

(***************************************************************************)
(* Bounds of the model.                                                    *)
(***************************************************************************)
\* batches the nodes run in all before the model stops following them
MaxBatches == 3
\* config.per_page (--batch-size), an input of the run
per_page == 1
\* catalog calls (update_scenes, file_set_fingerprints) that fail in one run
MaxCatFailures == 1

\* scenes in one batch handed to the worker pool
MaxBatchSize == 3
\* config.max_workers (--max-workers), an input of the run
MaxWorkers == 2
\* the timeout of future.result (600 s), counted in ticks of the model's clock
ItemTimeout == 2

(***************************************************************************)
(* Program constants: the tag ids of config.py.                            *)
(***************************************************************************)
hashing_tag == 15015
hashing_error_tag == 15018
cover_error_tag == 15019

\* the nodes running the program against the same catalog
Nodes == {1, 2}
\* the scenes of the catalog, numbered in creation order
Items == {1, 2}

VARIABLES
    \* ---- the catalog (the Stash server) ----
    tags,           \* tags[i]: the tag ids scene i bears
    phash,          \* phash[i]: scene i has a phash fingerprint
    \* ---- one main loop per node ----
    npc,            \* npc[n]: "top" | "fetch" | "run" | "exited"
    selPage,        \* selPage[n]: the page drawn by discover_scenes
    batch,          \* batch[n]: the scenes of the node's current batch
    nbatch,         \* batches the nodes have finished, in all
    \* ---- one process_scene invocation per (node, scene of its batch) ----
    pl,             \* pl[n][i]: the invocation's position and locals
    \* ---- observations of the run (never read by the program) ----
    fpRuns,         \* fpRuns[i]: invocations that ran the fingerprinting step on i
    overlapped,     \* overlapped[i]: i was fetched while another batch holding i was live
    catFailed,      \* catFailed[i]: catalog calls about i that have failed
    taggedAtFetch,  \* taggedAtFetch[n]: scenes of n's batch that bore hashing_tag at its fetch
    \* ---- configuration of the nodes ----
    matches,        \* the scenes with a file name that fnmatch(filename, config.filemask)
                    \* accepts; every scene when no --filemask is given
    config_dry_run, \* config.dry_run as apply_cli_args has set it (--dry-run)
    retry_errors,   \* the nodes started with --retry-errors
    \* ---- the orchestrator of one node: main() and its ThreadPoolExecutor ----
    orch,           \* a record ("off": not modelled) with the fields
                    \*   mpc: "top" | "loop" | "wait" | "teardown" | "exited"
                    \*   shutdown_requested: the flag set by signal_handler
                    \*   max_workers: the size of the pool
                    \*   fut[k]: state of the k-th future: pending | running |
                    \*           finished | cancelled
                    \*   will[k]: what the k-th process_scene does once run: success
                    \*           (returns success), failure (returns a failure),
                    \*           raises (an exception leaves it), hangs (never returns)
                    \*   age[k]: ticks the k-th invocation has run, up to ItemTimeout + 1
                    \*   cursor: the position of the result loop in futures
                    \*   waited: ticks the current future.result call has waited
                    \*   total_scenes, successful, failed: the fields of batch_stats
                    \*   recorded[k] (observation): none | success | failure | timeout
                    \*   ranLong[k] (observation): the invocation returned after more
                    \*           than ItemTimeout
    \* ---- one process_scene invocation from its sprite step on, with the
    \*      sprite and preview generators it runs ----
    pipe            \* a record ("off": not modelled) with the fields
                    \*   ppc: "sprite" | "in_sprite" | "preview" | "in_preview" |
                    \*        "release" | "done"
                    \*   ptags: the tag ids the scene bears
                    \*   psuccess: the local success
                    \*   generate_sprite, generate_preview: the config flags
                    \*   VideoSpriteGenerator:
                    \*   spc: "idle" | "start" | "shots" | "create" | "cleanup" | "exited"
                    \*   total_shots: frames to extract
                    \*   sprobe: what get_video_duration got: none | ok | malformed
                    \*   frames: outcomes of the frame extractions collected so far
                    \*   stemp: the scratch directory screenshots_<hash> exists
                    \*   vtt_file: the VTT file exists
                    \*   cues: cues written to the VTT file
                    \*   sprite_file: the sprite image exists
                    \*   sraised: generate_sprite was left by an exception
                    \*   createCalls: calls of create_sprite
                    \*   PreviewVideoGenerator:
                    \*   gpc: "idle" | "start" | "clips" | "splice" | "cleanup" | "exited"
                    \*   num_clips: clips requested
                    \*   gprobe: what get_video_duration got: none | ok | malformed
                    \*   clipOc: outcomes of the clip extractions collected so far
                    \*   clips: the list clips of generate_clips: names of the kept clips
                    \*   gtemp: the scratch directory preview_temp_<hash> exists
                    \*   preview_file: the preview video exists
                    \*   spliceCalls: runs of the concat command
                    \*   spliceArg: the file names written to clips.txt, in order
                    \*   graised: generate_preview was left by an exception
                    \*   the execution strategy:
                    \*   vaapi_supported: the local of main(), passed to every
                    \*        process_scene
                    \*   nscene: scenes this worker has entered process_scene for
                    \*   s_use_vaapi, g_use_vaapi: self.use_vaapi of the sprite and
                    \*        of the preview generator, as a set: {} for None (and
                    \*        before the generator is built), {b} for the value b
                    \*   frameModes, clipModes, spliceModes (observations): the
                    \*        strategies frame extractions, clip extractions and
                    \*        concat commands were run with since the start
VARIABLES
    \* ---- one call of discover_scenes against a catalog other nodes work on ----
    disc,           \* a record ("off": not modelled), see DiscInit
    \* ---- the worker pool of main() with the extraction pools of its items ----
    pools,          \* a record ("off": not modelled), see PoolInit
    \* ---- one application of a function of the program to its arguments ----
    calc            \* a record ("off": not modelled), see the Init of each function

catVars == <<tags, phash>>
nodeVars == <<npc, selPage, batch, nbatch>>
obsVars == <<fpRuns, overlapped, catFailed, taggedAtFetch>>
cfgVars == <<matches, config_dry_run, retry_errors>>
protoVars == <<tags, phash, npc, selPage, batch, nbatch, pl,
               fpRuns, overlapped, catFailed, taggedAtFetch, cfgVars>>
orchVars == orch
pipeVars == pipe
auxVars == <<disc, pools, calc>>
vars == <<protoVars, orchVars, pipeVars, auxVars>>

(***************************************************************************)
(* Helpers.                                                                *)
(***************************************************************************)
Max(a, b) == IF a >= b THEN a ELSE b
Min(a, b) == IF a <= b THEN a ELSE b

SetMax(S) == CHOOSE m \in S : \A x \in S : x <= m

\* "sort": "created_at", "direction": "DESC": scenes are created in id order
RECURSIVE SortDesc(_)
SortDesc(S) ==
    IF S = {} THEN <<>>
    ELSE LET m == SetMax(S) IN <<m>> \o SortDesc(S \ {m})

Range(s) == {s[k] : k \in 1..Len(s)}

(***************************************************************************)
(* scene_discovery.py                                                      *)
(***************************************************************************)
\* SceneFilter without the phash IS_NULL condition
SceneFilterIgnoringPhash(i) ==
    tags[i] \cap {hashing_tag, hashing_error_tag, cover_error_tag} = {}

\* SceneFilter with hashing_tag left out of the excluded tags
SceneFilterIgnoringClaim(i) ==
    /\ ~phash[i]
    /\ tags[i] \cap {hashing_error_tag, cover_error_tag} = {}

\* the filter of both find_scenes calls: phash IS_NULL, tags EXCLUDES the three
SceneFilter(i) ==
    /\ ~phash[i]
    /\ tags[i] \cap {hashing_tag, hashing_error_tag, cover_error_tag} = {}

all_scenes == {i \in Items : SceneFilter(i)}

\* a page count that rounds down
TotalPagesFloor(total_count, page_size) == Max(1, total_count \div page_size)

\* max(1, (total_count + config.per_page - 1) // config.per_page)
TotalPages(total_count, page_size) ==
    Max(1, (total_count + page_size - 1) \div page_size)

total_pages(total_count) == TotalPages(total_count, per_page)

\* find_scenes with "per_page" and "page": the page of the sorted result
PageOf(S, page, page_size) ==
    LET s == SortDesc(S)
        lo == (page - 1) * page_size + 1
        hi == Min(page * page_size, Len(s))
    IN  SubSeq(s, lo, hi)

\* the selected page of the filtered, sorted result
batch_scenes(page) == Range(PageOf(all_scenes, page, per_page))

\* the filemask filter applied to the fetched page (the page itself without
\* --filemask, when every scene is in matches)
filtered_scenes(page_scenes) == page_scenes \cap matches

(***************************************************************************)
(* stash_utils.py                                                          *)
(***************************************************************************)
RECURSIVE SumOver(_, _)
SumOver(f, S) ==
    IF S = {} THEN 0
    ELSE LET x == CHOOSE y \in S : TRUE IN f[x] + SumOver(f, S \ {x})

Failed(cond) == IF cond THEN 1 ELSE 0

\* any catalog call may fail (RemoteError); the model follows a run while the
\* calls that have failed in it are at most MaxCatFailures: k more may fail
MayFail(k) == SumOver(catFailed, Items) + k <= MaxCatFailures

\* how tag_scene_error, a mutation made of two update_scenes calls, can end
TagOutcomes == {"ok", "add_failed", "remove_failed"}

\* config.py: dry_run = False
config_default_dry_run == FALSE

\* the name dry_run of stash_utils.py and of scene_processor.py: "from config
\* import dry_run" binds it to the value config.dry_run has when the module is
\* imported, at the top of main.py; apply_cli_args assigns config.dry_run
\* later, in main(), and the name keeps the value it was bound to
dry_run == config_default_dry_run

\* a tag_scene_error that adds no tag
TagErrorDropped(t, error_tag, oc) == t \ {hashing_tag}

\* tag_scene_error: ADD error_tag, then REMOVE hashing_tag; a failing call
\* raises and leaves the later call undone
tag_scene_error(t, error_tag, oc) ==
    IF dry_run THEN t
    ELSE CASE oc = "ok"            -> (t \cup {error_tag}) \ {hashing_tag}
           [] oc = "add_failed"    -> t
           [] oc = "remove_failed" -> t \cup {error_tag}

\* claim_scene: ADD hashing_tag
claim_scene(t) == IF dry_run THEN t ELSE t \cup {hashing_tag}

\* a release_scene that removes nothing
ReleaseDropped(t) == t

\* release_scene: REMOVE hashing_tag
release_scene(t) == IF dry_run THEN t ELSE t \ {hashing_tag}

\* an update_phash that sets nothing
UpdatePhashDropped(has_phash) == has_phash

\* update_phash: file_set_fingerprints
update_phash(has_phash) == IF dry_run THEN has_phash ELSE TRUE

(***************************************************************************)
(* scene_processor.py: process_scene                                       *)
(***************************************************************************)
\* the locals of one invocation
Idle == [pc |-> "none", success |-> TRUE, exc |-> FALSE, claimed |-> FALSE,
         releases |-> 0, relOk |-> FALSE, ops |-> {}, missing |-> FALSE]

Started == [Idle EXCEPT !.pc = "start"]

\* the locals of an invocation that has returned are kept until the worker
\* enters its next process_scene call
Returned == [Idle EXCEPT !.pc = "done"]

Forgotten(row) == [j \in Items |-> IF row[j].pc = "done" THEN Returned ELSE row[j]]

\* the steps inside the try block, in program order
NextStep(pc) ==
    CASE pc = "hash"    -> "cover"
      [] pc = "cover"   -> "sprite"
      [] pc = "sprite"  -> "preview"
      [] pc = "preview" -> "release"

\* an exception leaving the try block with no finally block around it
OnExceptionNoFinally == "done"

\* an exception leaving the try block runs the finally block: release_scene
OnException == "release"

\* the error tag a failing step applies
ErrorTagOf(pc) == IF pc = "cover" THEN cover_error_tag ELSE hashing_error_tag

\* whether a failing step clears the success flag (the cover step does not)
ClearsSuccess(pc) == pc # "cover"

InProgress(n, i) == pl[n][i].claimed /\ pl[n][i].releases = 0 /\ pl[n][i].pc # "done"

Live(n, i) == pl[n][i].pc \notin {"none", "done"}

\* the nodes of this specification run with --max-workers 1: the pool's one
\* worker takes the next queued scene, in the order of submission (the order
\* of the fetched page), when it has finished the one before
WorkerFree(n) == \A j \in Items : pl[n][j].pc \in {"none", "start", "done"}

FirstQueued(n, i) == \A j \in Items : j > i => pl[n][j].pc # "start"


\* batches finished or under way, over all nodes
BatchesStarted ==
    nbatch + Cardinality({m \in Nodes : npc[m] \in {"fetch", "run"}})

(***************************************************************************)
(* Initial state: a fresh catalog, every node at the top of its main loop. *)
(***************************************************************************)
\* no batch fetched and nothing observed yet
IdleInit ==
    /\ selPage = [n \in Nodes |-> 0]
    /\ batch = [n \in Nodes |-> {}]
    /\ nbatch = 0
    /\ pl = [n \in Nodes |-> [i \in Items |-> Idle]]
    /\ fpRuns = [i \in Items |-> 0]
    /\ overlapped = [i \in Items |-> FALSE]
    /\ catFailed = [i \in Items |-> 0]
    /\ taggedAtFetch = [n \in Nodes |-> {}]

\* every node at the top of its main loop
NodesInit ==
    /\ npc = [n \in Nodes |-> "top"]
    /\ IdleInit

ProtoInit ==
    /\ tags = [i \in Items |-> {}]
    /\ phash = [i \in Items |-> FALSE]
    /\ NodesInit

(***************************************************************************)
(* discover_scenes, first half: the id-only query, the page count and the  *)
(* random page.  An empty result ends the main loop ("No scenes to         *)
(* process").                                                              *)
(***************************************************************************)
CountScenes(n) ==
    /\ npc[n] = "top"
    /\ n \notin retry_errors
    /\ BatchesStarted < MaxBatches
    /\ IF all_scenes = {}
       THEN /\ npc' = [npc EXCEPT ![n] = "exited"]
            /\ UNCHANGED selPage
       ELSE \E p \in 1..total_pages(Cardinality(all_scenes)) :
               /\ selPage' = [selPage EXCEPT ![n] = p]
               /\ npc' = [npc EXCEPT ![n] = "fetch"]
    /\ UNCHANGED <<catVars, batch, nbatch, pl, obsVars>>
    /\ UNCHANGED <<cfgVars, orchVars, pipeVars, auxVars>>

(***************************************************************************)
(* discover_scenes, second half: the fetch of the selected page, against   *)
(* the catalog as it is now; main() then submits one process_scene per     *)
(* scene of the page.  An empty page ends the main loop.                   *)
(***************************************************************************)
FetchPage(n) ==
    /\ npc[n] = "fetch"
    /\ LET b == filtered_scenes(batch_scenes(selPage[n])) IN
       IF b = {}
       THEN /\ npc' = [npc EXCEPT ![n] = "exited"]
            /\ UNCHANGED <<batch, pl, overlapped, taggedAtFetch>>
       ELSE /\ npc' = [npc EXCEPT ![n] = "run"]
            /\ batch' = [batch EXCEPT ![n] = b]
            /\ pl' = [pl EXCEPT ![n] =
                        [i \in Items |-> IF i \in b THEN Started ELSE Idle]]
            /\ overlapped' = [i \in Items |->
                    \/ overlapped[i]
                    \/ /\ i \in b
                       /\ \E m \in Nodes \ {n} : i \in batch[m] /\ Live(m, i)]
            /\ taggedAtFetch' = [taggedAtFetch EXCEPT ![n] =
                    {i \in b : hashing_tag \in tags[i]}]
    /\ selPage' = [selPage EXCEPT ![n] = 0]
    /\ UNCHANGED <<catVars, nbatch, fpRuns, catFailed>>
    /\ UNCHANGED <<cfgVars, orchVars, pipeVars, auxVars>>

(***************************************************************************)
(* main() with --retry-errors: get_error_scenes and clear_error_tags in    *)
(* place of discover_scenes; the batch is every scene the query returns.   *)
(***************************************************************************)
\* get_error_scenes: tags INCLUDES hashing_error_tag or cover_error_tag
error_scenes ==
    {i \in Items : tags[i] \cap {hashing_error_tag, cover_error_tag} # {}}

\* clear_error_tags: REMOVE hashing_error_tag, REMOVE cover_error_tag
clear_error_tags(t) ==
    IF dry_run THEN t ELSE t \ {hashing_error_tag, cover_error_tag}

\* one pass of the loop up to the submits; a catalog call of clear_error_tags
\* that fails raises outside every handler and ends main(); the model lets
\* the first of them fail
RetryFetch(n) ==
    /\ npc[n] = "top"
    /\ n \in retry_errors
    /\ BatchesStarted < MaxBatches
    /\ LET b == error_scenes IN
       IF b = {}
       THEN /\ npc' = [npc EXCEPT ![n] = "exited"]
            /\ UNCHANGED <<tags, batch, pl, overlapped, taggedAtFetch, catFailed>>
       ELSE \E ok \in BOOLEAN :
            /\ MayFail(Failed(~ok))
            /\ IF ok
               THEN /\ npc' = [npc EXCEPT ![n] = "run"]
                    /\ tags' = [i \in Items |->
                                 IF i \in b THEN clear_error_tags(tags[i])
                                 ELSE tags[i]]
                    /\ batch' = [batch EXCEPT ![n] = b]
                    /\ pl' = [pl EXCEPT ![n] =
                                [i \in Items |-> IF i \in b THEN Started ELSE Idle]]
                    /\ overlapped' = [i \in Items |->
                            \/ overlapped[i]
                            \/ /\ i \in b
                               /\ \E m \in Nodes \ {n} :
                                     i \in batch[m] /\ Live(m, i)]
                    /\ taggedAtFetch' = [taggedAtFetch EXCEPT ![n] =
                            {i \in b : hashing_tag \in tags[i]}]
                    /\ UNCHANGED catFailed
               ELSE /\ npc' = [npc EXCEPT ![n] = "exited"]
                    /\ catFailed' = [catFailed EXCEPT ![SetMax(b)] = @ + 1]
                    /\ UNCHANGED <<tags, batch, pl, overlapped, taggedAtFetch>>
    /\ UNCHANGED <<phash, selPage, nbatch, fpRuns>>
    /\ UNCHANGED <<cfgVars, orchVars, pipeVars, auxVars>>

(***************************************************************************)
(* process_scene up to the try block: the file check and either the        *)
(* file-not-found return (tag_scene_error, no claim) or claim_scene.       *)
(***************************************************************************)
StartScene(n, i) ==
    /\ pl[n][i].pc = "start"
    /\ WorkerFree(n)
    /\ FirstQueued(n, i)
    /\ \E file_exists \in BOOLEAN :
       \E oc \in (IF file_exists THEN {"ok", "add_failed"} ELSE TagOutcomes) :
          /\ MayFail(Failed(oc # "ok"))
          /\ IF file_exists
             THEN /\ tags' = [tags EXCEPT ![i] =
                                IF oc = "ok" THEN claim_scene(@) ELSE @]
                  /\ pl' = [pl EXCEPT ![n] = [Forgotten(@) EXCEPT ![i] =
                              [@ EXCEPT !.pc = IF oc = "ok" THEN "hash" ELSE "done",
                                        !.claimed = (oc = "ok"),
                                        !.exc = (oc # "ok"),
                                        !.ops = {"ADD"}]]]
             ELSE /\ tags' = [tags EXCEPT ![i] =
                                tag_scene_error(@, hashing_error_tag, oc)]
                  /\ pl' = [pl EXCEPT ![n] = [Forgotten(@) EXCEPT ![i] =
                              [@ EXCEPT !.pc = "done",
                                        !.missing = TRUE,
                                        !.success = FALSE,
                                        !.exc = (oc # "ok"),
                                        !.ops = IF oc = "add_failed"
                                                THEN {} ELSE {"REMOVE"}]]]
          /\ catFailed' = [catFailed EXCEPT ![i] = @ + Failed(oc # "ok")]
    /\ UNCHANGED <<phash, nodeVars, fpRuns, overlapped, taggedAtFetch>>
    /\ UNCHANGED <<cfgVars, orchVars, pipeVars, auxVars>>

(***************************************************************************)
(* A failing step of the try block: its handler calls tag_scene_error and  *)
(* goes on to the next step; if tag_scene_error itself raises, the         *)
(* exception leaves the try block.  (The cover step has two nested         *)
(* handlers that both call tag_scene_error with cover_error_tag: the       *)
(* second runs when the first raises, and the pair ends in one of the      *)
(* three outcomes of a single call.)                                       *)
(***************************************************************************)
FailStep(n, i, oc) ==
    LET p == pl[n][i] IN
    /\ tags' = [tags EXCEPT ![i] = tag_scene_error(@, ErrorTagOf(p.pc), oc)]
    /\ pl' = [pl EXCEPT ![n][i] =
                [@ EXCEPT !.pc = IF oc = "ok" THEN NextStep(p.pc) ELSE OnException,
                          !.success = IF oc = "ok" /\ ClearsSuccess(p.pc)
                                      THEN FALSE ELSE @,
                          !.exc = (oc # "ok"),
                          !.ops = IF oc = "add_failed" THEN @ ELSE @ \cup {"REMOVE"}]]

\* the fingerprinting step: the videohashes binary, then update_phash
HashStep(n, i) ==
    /\ pl[n][i].pc = "hash"
    /\ IF dry_run
       THEN \* "Would run videohash": no subprocess, no update_phash
            /\ pl' = [pl EXCEPT ![n][i].pc = NextStep("hash")]
            /\ UNCHANGED <<tags, phash, fpRuns, catFailed>>
       ELSE /\ fpRuns' = [fpRuns EXCEPT ![i] = @ + 1]
            /\ \E tool_ok \in BOOLEAN : \E update_ok \in BOOLEAN :
               \E oc \in TagOutcomes :
                  \* update_phash is called only after the binary has succeeded
                  /\ tool_ok \/ update_ok
                  /\ MayFail(Failed(~update_ok) + Failed(oc # "ok"))
                  /\ IF tool_ok /\ update_ok
                     THEN /\ oc = "ok"
                          /\ phash' = [phash EXCEPT ![i] = update_phash(@)]
                          /\ pl' = [pl EXCEPT ![n][i].pc = NextStep("hash")]
                          /\ UNCHANGED tags
                     ELSE /\ FailStep(n, i, oc)
                          /\ UNCHANGED phash
                  /\ catFailed' = [catFailed EXCEPT ![i] =
                                      @ + Failed(~update_ok) + Failed(oc # "ok")]
    /\ UNCHANGED <<nodeVars, overlapped, taggedAtFetch>>
    /\ UNCHANGED <<cfgVars, orchVars, pipeVars, auxVars>>

\* a later step of the try block: it succeeds (or has nothing to do), or fails
ArtifactStep(n, i, pc) ==
    /\ pl[n][i].pc = pc
    /\ \E ok \in BOOLEAN : \E oc \in TagOutcomes :
          /\ MayFail(Failed(oc # "ok"))
          /\ IF ok
             THEN /\ oc = "ok"
                  /\ pl' = [pl EXCEPT ![n][i].pc = NextStep(pc)]
                  /\ UNCHANGED tags
             ELSE FailStep(n, i, oc)
          /\ catFailed' = [catFailed EXCEPT ![i] = @ + Failed(oc # "ok")]
    /\ UNCHANGED <<phash, nodeVars, fpRuns, overlapped, taggedAtFetch>>
    /\ UNCHANGED <<cfgVars, orchVars, pipeVars, auxVars>>

CoverStep(n, i) == ArtifactStep(n, i, "cover")

SpriteStep(n, i) == ArtifactStep(n, i, "sprite")

PreviewStep(n, i) == ArtifactStep(n, i, "preview")

\* the finally block: release_scene, then the return or the pending exception
ReleaseStep(n, i) ==
    /\ pl[n][i].pc = "release"
    /\ \E ok \in BOOLEAN :
          /\ MayFail(Failed(~ok))
          /\ tags' = [tags EXCEPT ![i] = IF ok THEN release_scene(@) ELSE @]
          /\ pl' = [pl EXCEPT ![n][i] =
                      [@ EXCEPT !.pc = "done",
                                !.releases = @ + 1,
                                !.relOk = ok,
                                !.exc = @ \/ ~ok,
                                !.ops = @ \cup {"REMOVE"}]]
          /\ catFailed' = [catFailed EXCEPT ![i] = @ + Failed(~ok)]
    /\ UNCHANGED <<phash, nodeVars, fpRuns, overlapped, taggedAtFetch>>
    /\ UNCHANGED <<cfgVars, orchVars, pipeVars, auxVars>>

(***************************************************************************)
(* main(): every future of the batch has been awaited and the pool is torn *)
(* down; the loop goes back to its top.                                    *)
(***************************************************************************)
BatchEnd(n) ==
    /\ npc[n] = "run"
    /\ \A i \in batch[n] : pl[n][i].pc = "done"
    /\ npc' = [npc EXCEPT ![n] = "top"]
    /\ nbatch' = nbatch + 1
    /\ batch' = [batch EXCEPT ![n] = {}]
    /\ pl' = [pl EXCEPT ![n] = [i \in Items |-> Idle]]
    /\ taggedAtFetch' = [taggedAtFetch EXCEPT ![n] = {}]
    /\ UNCHANGED <<catVars, selPage, fpRuns, overlapped, catFailed>>
    /\ UNCHANGED <<cfgVars, orchVars, pipeVars, auxVars>>

(***************************************************************************)
(* phash_videohasher_main.py: main() from the start of a batch, with the   *)
(* pool's workers.  process_scene is seen from outside: it returns a       *)
(* success, returns a failure, raises, or never returns.                   *)
(***************************************************************************)
\* the fields of the orchestrator's state
mpc == orch.mpc
shutdown_requested == orch.shutdown_requested
max_workers == orch.max_workers
fut == orch.fut
will == orch.will
age == orch.age
cursor == orch.cursor
waited == orch.waited
total_scenes == orch.total_scenes
successful == orch.successful
failed == orch.failed
recorded == orch.recorded
ranLong == orch.ranLong

Futures == 1..Len(fut)

Running == {k \in Futures : fut[k] = "running"}

\* executor.shutdown(wait=False) without cancel_futures: the queue is left alone
KeepFutures(f) == f

\* executor.shutdown(wait=False, cancel_futures=True): every future still in the
\* queue is cancelled; a running one is left alone
CancelFutures(f) == [k \in DOMAIN f |-> IF f[k] = "pending" THEN "cancelled" ELSE f[k]]

\* executor.shutdown(wait=True) returns when the workers have drained the queue
\* and have all returned
TeardownReady == \A k \in Futures : fut[k] \in {"finished", "cancelled"}

\* a worker of the pool is idle and the k-th work item is the head of the queue
CanStart(k) ==
    /\ fut[k] = "pending"
    /\ \A j \in Futures : j < k => fut[j] # "pending"
    /\ Cardinality(Running) < max_workers

\* what one process_scene invocation does, seen from the worker pool
Outcomes == {"success", "failure", "raises", "hangs"}

\* an exception raised by future.result with no handler around the call: it
\* leaves the result loop
WorkerErrorPropagates == "propagate"

\* except Exception around future.result: the error is recorded as a failure
\* and the loop goes on
OnWorkerError == "record"

\* a failure that leaves the counters alone
record_nothing(o) == o

\* BatchStatistics.start_batch
start_batch(o, n) ==
    [o EXCEPT !.total_scenes = n, !.successful = 0, !.failed = 0]

\* BatchStatistics.record_success
record_success(o) == [o EXCEPT !.successful = @ + 1]

\* BatchStatistics.record_failure
record_failure(o) == [o EXCEPT !.failed = @ + 1]

OrchInit ==
    \E w \in 1..MaxWorkers :
        orch = [mpc |-> "top",
                shutdown_requested |-> FALSE,
                max_workers |-> w,
                fut |-> <<>>,
                will |-> <<>>,
                age |-> <<>>,
                cursor |-> 1,
                waited |-> 0,
                total_scenes |-> 0,
                successful |-> 0,
                failed |-> 0,
                recorded |-> <<>>,
                ranLong |-> <<>>]

\* the orchestrator is left out of the other specifications
OrchOff == orch = "off"

\* the claim protocol is left out of the other specifications
ProtoOff ==
    /\ matches = Items
    /\ config_dry_run = FALSE
    /\ retry_errors = {}
    /\ tags = [i \in Items |-> {}]
    /\ phash = [i \in Items |-> FALSE]
    /\ npc = [n \in Nodes |-> "off"]
    /\ selPage = [n \in Nodes |-> 0]
    /\ batch = [n \in Nodes |-> {}]
    /\ nbatch = 0
    /\ pl = [n \in Nodes |-> [i \in Items |-> Idle]]
    /\ fpRuns = [i \in Items |-> 0]
    /\ overlapped = [i \in Items |-> FALSE]
    /\ catFailed = [i \in Items |-> 0]
    /\ taggedAtFetch = [n \in Nodes |-> {}]

\* the artifact pipelines are left out of the other specifications
PipeOff == pipe = "off"

\* discover_scenes on its own, the nested pools and the single functions are
\* left out of the other specifications
AuxOff == disc = "off" /\ pools = "off" /\ calc = "off"

\* signal_handler: SIGTERM or SIGINT sets the flag, whatever main() is doing
signal_handler ==
    /\ mpc # "exited"
    /\ ~shutdown_requested
    /\ orch' = [orch EXCEPT !.shutdown_requested = TRUE]
    /\ UNCHANGED <<protoVars, pipeVars, auxVars>>

\* top of the while loop with the flag set: exit
ExitOnShutdown ==
    /\ mpc = "top"
    /\ shutdown_requested
    /\ orch' = [orch EXCEPT !.mpc = "exited"]
    /\ UNCHANGED <<protoVars, pipeVars, auxVars>>

\* discover_scenes returned nothing: exit
NoScenes ==
    /\ mpc = "top"
    /\ ~shutdown_requested
    /\ orch' = [orch EXCEPT !.mpc = "exited"]
    /\ UNCHANGED <<protoVars, pipeVars, auxVars>>

\* a batch of N scenes: start_batch, a new executor, one submit per scene
StartBatch ==
    /\ mpc = "top"
    /\ ~shutdown_requested
    /\ \E N \in 1..MaxBatchSize :
       \E w \in [1..N -> Outcomes] :
          orch' = [start_batch(orch, N) EXCEPT
                      !.will = w,
                      !.fut = [k \in 1..N |-> "pending"],
                      !.age = [k \in 1..N |-> 0],
                      !.recorded = [k \in 1..N |-> "none"],
                      !.ranLong = [k \in 1..N |-> FALSE],
                      !.cursor = 1,
                      !.waited = 0,
                      !.mpc = "loop"]
    /\ UNCHANGED <<protoVars, pipeVars, auxVars>>

\* a worker takes the head of the queue and enters process_scene
WorkerStart(k) ==
    /\ CanStart(k)
    /\ orch' = [orch EXCEPT !.fut[k] = "running"]
    /\ UNCHANGED <<protoVars, pipeVars, auxVars>>

\* process_scene returns or raises; the worker sets the future's result
WorkerFinish(k) ==
    /\ k \in Running
    /\ will[k] # "hangs"
    /\ orch' = [orch EXCEPT !.fut[k] = "finished",
                            !.ranLong[k] = age[k] > ItemTimeout,
                            !.age[k] = 0]
    /\ UNCHANGED <<protoVars, pipeVars, auxVars>>

\* the main thread is blocked: in future.result, or in executor.shutdown(wait=True)
MainBlocked ==
    \/ mpc = "wait" /\ fut[cursor] # "finished" /\ waited < ItemTimeout
    \/ mpc = "teardown" /\ ~TeardownReady

\* one tick of the clock passes; threads that can run do not wait for it
Tick ==
    /\ MainBlocked
    /\ Running # {}
    /\ \A k \in Futures : ~CanStart(k)
    /\ orch' = [orch EXCEPT
                  !.age = [k \in Futures |->
                             IF fut[k] = "running"
                             THEN Min(age[k] + 1, ItemTimeout + 1) ELSE age[k]],
                  !.waited = IF mpc = "wait" THEN @ + 1 ELSE @]
    /\ UNCHANGED <<protoVars, pipeVars, auxVars>>

\* the result loop, flag set: shutdown(wait=False, cancel_futures=True), break
ObserveShutdown ==
    /\ mpc = "loop"
    /\ cursor <= Len(fut)
    /\ shutdown_requested
    /\ orch' = [orch EXCEPT !.fut = CancelFutures(@), !.mpc = "teardown"]
    /\ UNCHANGED <<protoVars, pipeVars, auxVars>>

\* the result loop, flag clear: future.result(timeout=600) is entered
BeginWait ==
    /\ mpc = "loop"
    /\ cursor <= Len(fut)
    /\ ~shutdown_requested
    /\ orch' = [orch EXCEPT !.mpc = "wait", !.waited = 0]
    /\ UNCHANGED <<protoVars, pipeVars, auxVars>>

\* future.result returns the dict, or raises what process_scene raised
\* (except Exception): either way one outcome is recorded and the loop goes on
CollectResult ==
    /\ mpc = "wait"
    /\ fut[cursor] = "finished"
    /\ orch' = IF will[cursor] = "raises" /\ OnWorkerError # "record"
               THEN [orch EXCEPT !.mpc = "teardown"]
               ELSE IF will[cursor] = "success"
               THEN [record_success(orch) EXCEPT !.recorded[cursor] = "success",
                                                 !.cursor = @ + 1,
                                                 !.mpc = "loop"]
               ELSE [record_failure(orch) EXCEPT !.recorded[cursor] = "failure",
                                                 !.cursor = @ + 1,
                                                 !.mpc = "loop"]
    /\ UNCHANGED <<protoVars, pipeVars, auxVars>>

\* future.result raises TimeoutError; the invocation is not touched
AwaitTimeout ==
    /\ mpc = "wait"
    /\ fut[cursor] # "finished"
    /\ waited = ItemTimeout
    /\ orch' = [record_failure(orch) EXCEPT !.recorded[cursor] = "timeout",
                                            !.cursor = @ + 1,
                                            !.mpc = "loop"]
    /\ UNCHANGED <<protoVars, pipeVars, auxVars>>

\* the result loop has gone through every future
LoopEnd ==
    /\ mpc = "loop"
    /\ cursor > Len(fut)
    /\ orch' = [orch EXCEPT !.mpc = "teardown"]
    /\ UNCHANGED <<protoVars, pipeVars, auxVars>>

\* the finally block: executor.shutdown(wait=True) has returned; end of the
\* batch iteration, the loop goes back to its top
Teardown ==
    /\ mpc = "teardown"
    /\ TeardownReady
    /\ orch' = [orch EXCEPT !.mpc = "top",
                            !.fut = <<>>,
                            !.will = <<>>,
                            !.age = <<>>,
                            !.recorded = <<>>,
                            !.ranLong = <<>>,
                            !.cursor = 1,
                            !.waited = 0]
    /\ UNCHANGED <<protoVars, pipeVars, auxVars>>

(***************************************************************************)
(* video_sprite_generator.py and preview_video_generator.py, as called by  *)
(* the sprite and preview steps of one process_scene invocation that holds *)
(* its claim.  The file system and the catalog calls of this invocation    *)
(* work; the probe and the transcode commands may fail.                    *)
(***************************************************************************)
\* frames of a sprite in the model (total_shots, 81 in the program)
MaxShots == 2
\* clips of a preview in the model (config.preview_clips, 15 in the program)
MaxClips == 3
\* scenes one worker goes through in the model
MaxPipeScenes == 2

\* the name of the i-th clip, f"clip_{i:03d}.mp4", as its three digits
ClipFile(i) == <<(i \div 100) % 10, (i \div 10) % 10, i % 10>>

\* string order of two clip names
NameLess(a, b) ==
    \E k \in 1..3 : a[k] < b[k] /\ \A j \in 1..(k - 1) : a[j] = b[j]

\* sorted(clips) of concatenate_clips
RECURSIVE sorted(_)
sorted(s) ==
    IF s = <<>> THEN <<>>
    ELSE LET m == CHOOSE k \in 1..Len(s) :
                      \A j \in 1..Len(s) : ~NameLess(s[j], s[k])
             rest == [j \in 1..(Len(s) - 1) |-> IF j < m THEN s[j] ELSE s[j + 1]]
         IN  <<s[m]>> \o sorted(rest)

\* how one clip extraction can end: the file is written, ffmpeg exits non-zero
\* (CalledProcessError), the command cannot be run (another exception), or
\* ffmpeg exits zero without writing the file
ClipOutcomes == {"ok", "nonzero", "raises", "nofile"}

\* extract_clip keeping the clip name whatever the command did
KeepClip(cl, i, oc) == Append(cl, ClipFile(i))

\* extract_clip and the collecting loop: None for a CalledProcessError,
\* dropped; the clip name otherwise
CollectClip(cl, i, oc) == IF oc = "nonzero" THEN cl ELSE Append(cl, ClipFile(i))

\* the fields of the invocation's and the generators' state
ppc == pipe.ppc
ptags == pipe.ptags
psuccess == pipe.psuccess
generate_sprite == pipe.generate_sprite
generate_preview == pipe.generate_preview
spc == pipe.spc
total_shots == pipe.total_shots
sprobe == pipe.sprobe
frames == pipe.frames
stemp == pipe.stemp
vtt_file == pipe.vtt_file
cues == pipe.cues
sprite_file == pipe.sprite_file
sraised == pipe.sraised
createCalls == pipe.createCalls
gpc == pipe.gpc
num_clips == pipe.num_clips
gprobe == pipe.gprobe
clipOc == pipe.clipOc
clips == pipe.clips
gtemp == pipe.gtemp
preview_file == pipe.preview_file
spliceCalls == pipe.spliceCalls
spliceArg == pipe.spliceArg
graised == pipe.graised
vaapi_supported == pipe.vaapi_supported
nscene == pipe.nscene
s_use_vaapi == pipe.s_use_vaapi
g_use_vaapi == pipe.g_use_vaapi
frameModes == pipe.frameModes
clipModes == pipe.clipModes
spliceModes == pipe.spliceModes

\* a generator that runs in software whatever it was built with
SoftwareOnly(u) == FALSE

\* use_vaapi = self.use_vaapi if self.use_vaapi is not None else False
EffectiveStrategy(u) == IF u = {} THEN FALSE ELSE CHOOSE b \in u : TRUE

\* os.path.exists of a clip file: its extraction has written it
ClipExists(name) ==
    \E i \in 0..(Len(clipOc) - 1) : ClipFile(i) = name /\ clipOc[i + 1] = "ok"

\* a frame extraction that never raises
FrameNeverRaises(oc) == FALSE

\* extract_and_resize: subprocess.run(check=True) and Image.open raise when
\* the frame was not produced
FrameRaises(oc) == oc # "ok"

\* a clean_up that leaves the directory
clean_up_skipped(exists) == exists

\* clean_up / clean_previous_clips: the scratch directory is removed if there
clean_up(exists) == FALSE

PipeInit ==
    \E gs \in BOOLEAN : \E gp \in BOOLEAN :
    \E ts \in 1..MaxShots : \E nc \in 1..MaxClips :
    \E sf \in BOOLEAN : \E pf \in BOOLEAN : \E hw \in BOOLEAN :
        pipe = [vaapi_supported |-> hw,
                nscene |-> 1,
                s_use_vaapi |-> {},
                g_use_vaapi |-> {},
                frameModes |-> {},
                clipModes |-> {},
                spliceModes |-> {},
                ppc |-> "sprite",
                ptags |-> {hashing_tag},
                psuccess |-> TRUE,
                generate_sprite |-> gs,
                generate_preview |-> gp,
                spc |-> "idle",
                total_shots |-> ts,
                sprobe |-> "none",
                frames |-> <<>>,
                stemp |-> FALSE,
                vtt_file |-> FALSE,
                cues |-> 0,
                sprite_file |-> sf,
                sraised |-> FALSE,
                createCalls |-> 0,
                gpc |-> "idle",
                num_clips |-> nc,
                gprobe |-> "none",
                clipOc |-> <<>>,
                clips |-> <<>>,
                gtemp |-> FALSE,
                preview_file |-> pf,
                spliceCalls |-> 0,
                spliceArg |-> <<>>,
                graised |-> FALSE]

\* process_scene, sprite step: the generator is built and run when sprites are
\* wanted and the sprite file is not there yet
SpriteCall ==
    /\ ppc = "sprite"
    /\ pipe' = IF generate_sprite /\ ~sprite_file
               THEN [pipe EXCEPT !.ppc = "in_sprite", !.spc = "start",
                                 !.s_use_vaapi = {vaapi_supported}]
               ELSE [pipe EXCEPT !.ppc = "preview"]
    /\ UNCHANGED <<protoVars, orchVars, auxVars>>

\* take_screenshots up to the frame loop: clean_previous_files, makedirs, the
\* probe; without a duration it returns False, else the VTT file is opened
SpriteProbe ==
    /\ spc = "start"
    /\ \E d \in {"ok", "malformed"} :
          pipe' = [pipe EXCEPT !.stemp = TRUE,
                               !.sprobe = d,
                               !.spc = IF d = "ok" THEN "shots" ELSE "cleanup",
                               !.vtt_file = (d = "ok"),
                               !.cues = 0]
    /\ UNCHANGED <<protoVars, orchVars, auxVars>>

\* the frame loop: the next future's result; a frame that was not produced
\* raises out of take_screenshots, past create_sprite, into the finally block
SpriteFrame ==
    /\ spc = "shots"
    /\ \E oc \in {"ok", "fail"} :
          pipe' = IF FrameRaises(oc)
                  THEN [pipe EXCEPT !.frames = Append(@, oc),
                                    !.frameModes = @ \cup {EffectiveStrategy(s_use_vaapi)},
                                    !.sraised = TRUE,
                                    !.spc = "cleanup"]
                  ELSE [pipe EXCEPT !.frames = Append(@, oc),
                                    !.frameModes = @ \cup {EffectiveStrategy(s_use_vaapi)},
                                    !.cues = @ + 1,
                                    !.spc = IF Len(frames) + 1 = total_shots
                                            THEN "create" ELSE "shots"]
    /\ UNCHANGED <<protoVars, orchVars, auxVars>>

\* create_sprite: the frames are pasted and the sprite saved, or it raises
SpriteCreate ==
    /\ spc = "create"
    /\ \E ok \in BOOLEAN :
          pipe' = [pipe EXCEPT !.createCalls = @ + 1,
                               !.sprite_file = ok,
                               !.sraised = ~ok,
                               !.spc = "cleanup"]
    /\ UNCHANGED <<protoVars, orchVars, auxVars>>

\* generate_sprite's finally block
SpriteCleanup ==
    /\ spc = "cleanup"
    /\ pipe' = [pipe EXCEPT !.stemp = clean_up(@), !.spc = "exited"]
    /\ UNCHANGED <<protoVars, orchVars, auxVars>>

\* process_scene after generate_sprite: the handler of an exception tags the
\* scene and clears success
SpriteReturn ==
    /\ ppc = "in_sprite"
    /\ spc = "exited"
    /\ pipe' = IF sraised
               THEN [pipe EXCEPT !.ptags = tag_scene_error(@, hashing_error_tag, "ok"),
                                 !.psuccess = FALSE,
                                 !.ppc = "preview"]
               ELSE [pipe EXCEPT !.ppc = "preview"]
    /\ UNCHANGED <<protoVars, orchVars, auxVars>>

\* process_scene, preview step
PreviewCall ==
    /\ ppc = "preview"
    /\ pipe' = IF generate_preview /\ ~preview_file
               THEN [pipe EXCEPT !.ppc = "in_preview", !.gpc = "start",
                                 !.g_use_vaapi = {vaapi_supported}]
               ELSE [pipe EXCEPT !.ppc = "release"]
    /\ UNCHANGED <<protoVars, orchVars, auxVars>>

\* generate_preview up to the clip loop: clean_previous_clips, makedirs, the
\* probe, whose float() raises on a malformed output
PreviewProbe ==
    /\ gpc = "start"
    /\ \E d \in {"ok", "malformed"} :
          pipe' = [pipe EXCEPT !.gtemp = TRUE,
                               !.gprobe = d,
                               !.gpc = IF d = "ok" THEN "clips" ELSE "exited",
                               !.graised = (d # "ok")]
    /\ UNCHANGED <<protoVars, orchVars, auxVars>>

\* the clip loop: the next future's result; after the last one, no clips means
\* return, some clips means concatenate
PreviewClip ==
    /\ gpc = "clips"
    /\ \E oc \in ClipOutcomes :
          LET i == Len(clipOc)
              cl == CollectClip(clips, i, oc)
          IN  pipe' = IF oc = "raises"
                      THEN [pipe EXCEPT !.clipOc = Append(@, oc),
                                        !.clipModes = @ \cup {EffectiveStrategy(g_use_vaapi)},
                                        !.graised = TRUE,
                                        !.gpc = "exited"]
                      ELSE [pipe EXCEPT !.clipOc = Append(@, oc),
                                        !.clipModes = @ \cup {EffectiveStrategy(g_use_vaapi)},
                                        !.clips = cl,
                                        !.gpc = IF i + 1 < num_clips THEN "clips"
                                                ELSE IF cl = <<>> THEN "exited"
                                                ELSE "splice"]
    /\ UNCHANGED <<protoVars, orchVars, auxVars>>

\* concatenate_clips inside the try block: a missing clip raises before the
\* command is run; the command writes the preview or fails; every exception
\* is caught and printed
PreviewSplice ==
    /\ gpc = "splice"
    /\ IF \E k \in 1..Len(clips) : ~ClipExists(clips[k])
       THEN pipe' = [pipe EXCEPT !.gpc = "cleanup"]
       ELSE \E ok \in BOOLEAN :
               pipe' = [pipe EXCEPT !.spliceCalls = @ + 1,
                                    !.spliceModes = @ \cup {EffectiveStrategy(g_use_vaapi)},
                                    !.spliceArg = sorted(clips),
                                    !.preview_file = ok,
                                    !.gpc = "cleanup"]
    /\ UNCHANGED <<protoVars, orchVars, auxVars>>

\* generate_preview's finally block
PreviewCleanup ==
    /\ gpc = "cleanup"
    /\ pipe' = [pipe EXCEPT !.gtemp = clean_up(@), !.gpc = "exited"]
    /\ UNCHANGED <<protoVars, orchVars, auxVars>>

\* process_scene after generate_preview
PreviewReturn ==
    /\ ppc = "in_preview"
    /\ gpc = "exited"
    /\ pipe' = IF graised
               THEN [pipe EXCEPT !.ptags = tag_scene_error(@, hashing_error_tag, "ok"),
                                 !.psuccess = FALSE,
                                 !.ppc = "release"]
               ELSE [pipe EXCEPT !.ppc = "release"]
    /\ UNCHANGED <<protoVars, orchVars, auxVars>>

\* the finally block of process_scene: release_scene, then the return
PipeRelease ==
    /\ ppc = "release"
    /\ pipe' = [pipe EXCEPT !.ptags = release_scene(@), !.ppc = "done"]
    /\ UNCHANGED <<protoVars, orchVars, auxVars>>

\* main() hands the worker its next scene, with the same vaapi_supported and
\* the same configuration: process_scene claims it and comes to its sprite step
PipeNextScene ==
    /\ ppc = "done"
    /\ nscene < MaxPipeScenes
    /\ \E sf \in BOOLEAN : \E pf \in BOOLEAN :
          pipe' = [pipe EXCEPT !.nscene = @ + 1,
                               !.ppc = "sprite",
                               !.ptags = {hashing_tag},
                               !.psuccess = TRUE,
                               !.spc = "idle",
                               !.sprobe = "none",
                               !.frames = <<>>,
                               !.stemp = FALSE,
                               !.vtt_file = FALSE,
                               !.cues = 0,
                               !.sprite_file = sf,
                               !.sraised = FALSE,
                               !.createCalls = 0,
                               !.gpc = "idle",
                               !.gprobe = "none",
                               !.clipOc = <<>>,
                               !.clips = <<>>,
                               !.gtemp = FALSE,
                               !.preview_file = pf,
                               !.spliceCalls = 0,
                               !.spliceArg = <<>>,
                               !.graised = FALSE,
                               !.s_use_vaapi = {},
                               !.g_use_vaapi = {}]
    /\ UNCHANGED <<protoVars, orchVars, auxVars>>

(***************************************************************************)
(* scene_discovery.py: one call of discover_scenes, for any page size,     *)
(* against a catalog from which other nodes take scenes (by claiming them) *)
(* between the two queries.  No --filemask.                                *)
(***************************************************************************)
\* scenes of the catalog that may pass the filter
MaxScenes == 4
\* the largest config.per_page tried
MaxPageSize == 3

\* disc has the fields
\*   dpc: "count" | "fetch" | "returned"
\*   catalog: the scenes that pass the filter of find_scenes now
\*   page_size: config.per_page
\*   total_count, total_pages, selected_page: the locals of discover_scenes
\*   fetched (observation): the pages asked of the catalog with full metadata
\*   result: the list returned
DiscInit ==
    \E c \in SUBSET (1..MaxScenes) : \E ps \in 1..MaxPageSize :
        disc = [dpc |-> "count",
                catalog |-> c,
                page_size |-> ps,
                total_count |-> 0,
                total_pages |-> 0,
                selected_page |-> 0,
                fetched |-> {},
                result |-> <<>>]

\* the id-only query, the count, the page count and random.randint picking p
DiscSelect(p) ==
    /\ disc.dpc = "count"
    /\ LET n == Cardinality(disc.catalog) IN
       IF n = 0
       THEN /\ p = 0
            /\ disc' = [disc EXCEPT !.dpc = "returned", !.result = <<>>]
       ELSE /\ p \in 1..TotalPages(n, disc.page_size)
            /\ disc' = [disc EXCEPT !.dpc = "fetch",
                                    !.total_count = n,
                                    !.total_pages = TotalPages(n, disc.page_size),
                                    !.selected_page = p]
    /\ UNCHANGED <<protoVars, orchVars, pipeVars, pools, calc>>

DiscCount == \E p \in 0..MaxScenes : DiscSelect(p)

\* the second query: the selected page, with full metadata, is returned
DiscFetch ==
    /\ disc.dpc = "fetch"
    /\ disc' = [disc EXCEPT
                  !.dpc = "returned",
                  !.fetched = @ \cup {disc.selected_page},
                  !.result = PageOf(disc.catalog, disc.selected_page, disc.page_size)]
    /\ UNCHANGED <<protoVars, orchVars, pipeVars, pools, calc>>

\* between the two queries another node claims a scene (claim_scene), which
\* then no longer passes the filter
DiscOtherNodeClaims ==
    /\ disc.dpc = "fetch"
    /\ \E i \in disc.catalog : disc' = [disc EXCEPT !.catalog = @ \ {i}]
    /\ UNCHANGED <<protoVars, orchVars, pipeVars, pools, calc>>

(***************************************************************************)
(* scene_processor.py: the names of the scratch directories of the scenes  *)
(* of one batch, which the pool runs concurrently.  Strings are sequences  *)
(* of characters.                                                          *)
(***************************************************************************)
\* the scenes of the batch
BatchItems == 1..MaxBatchSize

\* the value of a scene's oshash fingerprint: absent or empty, the hash of
\* one content, the hash of another content, a value with a path character
OshashValues == {<<>>, <<"a">>, <<"b">>, <<"a", ":">>}

\* results of random.choices(string.ascii_lowercase + string.digits, k=12):
\* twelve random characters, never an oshash value (sixteen hexadecimal
\* digits); two draws giving the same token (one chance in 36^12) is left out
Tokens == {<<"t", k>> : k \in BatchItems}

UsedTokens == {calc.filehash[k] : k \in {j \in BatchItems : calc.named[j]}}

\* not filehash or ":" in filehash or "\\" in filehash or "/" in filehash
Unsafe(filehash) ==
    \/ filehash = <<>>
    \/ \E k \in 1..Len(filehash) : filehash[k] \in {":", "\\", "/"}

\* os.path.join(".tmp", f"screenshots_{filehash}")
SpriteTempDir(filehash) == <<".tmp", "/", "screenshots_">> \o filehash

\* os.path.join(".tmp", f"preview_temp_{filehash}")
PreviewTempDir(filehash) == <<".tmp", "/", "preview_temp_">> \o filehash

\* calc has the fields
\*   oshash[k]: the oshash fingerprint of the k-th scene's first file
\*   named[k]: process_scene of the k-th scene has derived its filehash
\*   filehash[k]: that filehash
ScratchInit ==
    \E fp \in [BatchItems -> OshashValues] :
        calc = [oshash |-> fp,
                named |-> [k \in BatchItems |-> FALSE],
                filehash |-> [k \in BatchItems |-> <<>>]]

\* process_scene of the k-th scene up to its file check: the filehash is the
\* oshash value, or a random token when that is empty or unsafe
DeriveFilehash(k) ==
    /\ ~calc.named[k]
    /\ \E token \in Tokens \ UsedTokens :
          calc' = [calc EXCEPT
                     !.named[k] = TRUE,
                     !.filehash[k] = IF Unsafe(calc.oshash[k])
                                     THEN token ELSE calc.oshash[k]]
    /\ UNCHANGED <<protoVars, orchVars, pipeVars, disc, pools>>

(***************************************************************************)
(* Times.  A time is a whole number of ticks; a quotient of times is kept  *)
(* as the fraction <<numerator, denominator>> with a positive denominator, *)
(* so that the arithmetic of the functions below is exact.                 *)
(***************************************************************************)
Frac(n) == <<n, 1>>

FracAdd(a, b) == <<a[1] * b[2] + b[1] * a[2], a[2] * b[2]>>

FracMul(a, b) == <<a[1] * b[1], a[2] * b[2]>>

\* a / b for a positive b
FracDiv(a, b) == <<a[1] * b[2], a[2] * b[1]>>

FracEq(a, b) == a[1] * b[2] = b[1] * a[2]

FracLess(a, b) == a[1] * b[2] < b[1] * a[2]

FracLeq(a, b) == a[1] * b[2] <= b[1] * a[2]

(***************************************************************************)
(* preview_video_generator.py: get_start_times.                            *)
(***************************************************************************)
\* the longest video, in ticks
MaxDuration == 8
\* the largest self.skip_seconds, in ticks
MaxSkip == 2
\* the largest self.clip_length, in ticks
MaxClipLength == 2

\* start times whose index runs from 0
StartTimesFromZero(video_duration, skip_seconds, clip_length, n_clips) ==
    LET interval == FracDiv(Frac(video_duration - skip_seconds - clip_length),
                            Frac(n_clips + 1))
    IN  [i \in 1..n_clips |->
            FracAdd(Frac(skip_seconds), FracMul(interval, Frac(i - 1)))]

\* interval = (video_duration - skip_seconds - clip_length) / (num_clips + 1);
\* [skip_seconds + interval * i for i in range(1, num_clips + 1)]
get_start_times(video_duration, skip_seconds, clip_length, n_clips) ==
    LET interval == FracDiv(Frac(video_duration - skip_seconds - clip_length),
                            Frac(n_clips + 1))
    IN  [i \in 1..n_clips |->
            FracAdd(Frac(skip_seconds), FracMul(interval, Frac(i)))]

\* calc has the fields video_duration, skip_seconds, clip_length, num_clips
\* (the argument and the attributes read), called, and start_times (the list
\* returned)
StartTimesInit ==
    \E d \in 0..MaxDuration : \E sk \in 0..MaxSkip :
    \E cl \in 1..MaxClipLength : \E nc \in 1..MaxClips :
        calc = [video_duration |-> d,
                skip_seconds |-> sk,
                clip_length |-> cl,
                num_clips |-> nc,
                called |-> FALSE,
                start_times |-> <<>>]

\* the call of get_start_times in generate_clips
GetStartTimes ==
    /\ ~calc.called
    /\ calc' = [calc EXCEPT
                  !.called = TRUE,
                  !.start_times = get_start_times(calc.video_duration,
                                                  calc.skip_seconds,
                                                  calc.clip_length,
                                                  calc.num_clips)]
    /\ UNCHANGED <<protoVars, orchVars, pipeVars, disc, pools>>

(***************************************************************************)
(* video_sprite_generator.py: the timestamps of the frames that            *)
(* take_screenshots has extract_and_resize extract.                        *)
(***************************************************************************)
\* the largest self.total_shots tried (81 in the program)
MaxSamples == 5

\* a timestamp counted from the first interval on
ExtractTimeFromOne(i, interval) == FracMul(Frac(i + 1), interval)

\* extract_and_resize: time = i * interval
ExtractTime(i, interval) == FracMul(Frac(i), interval)

\* calc has the fields
\*   duration: what get_video_duration returned, in ticks (0: no duration)
\*   total_shots: self.total_shots
\*   tpc: "start" | "submit" | "submitted" | "no_duration"
\*   interval: the local of take_screenshots
\*   times: the -ss time of each extraction submitted, in order
SampleInit ==
    \E d \in 0..MaxDuration : \E ts \in 1..MaxSamples :
        calc = [duration |-> d,
                total_shots |-> ts,
                tpc |-> "start",
                interval |-> Frac(0),
                times |-> <<>>]

\* take_screenshots up to the frame loop: no duration returns False, else
\* interval = duration / self.total_shots
SampleInterval ==
    /\ calc.tpc = "start"
    /\ calc' = IF calc.duration = 0
               THEN [calc EXCEPT !.tpc = "no_duration"]
               ELSE [calc EXCEPT !.tpc = "submit",
                                 !.interval = FracDiv(Frac(calc.duration),
                                                      Frac(calc.total_shots))]
    /\ UNCHANGED <<protoVars, orchVars, pipeVars, disc, pools>>

\* executor.submit(self.extract_and_resize, i, interval, use_vaapi) for the
\* next i of range(self.total_shots)
SampleSubmit ==
    /\ calc.tpc = "submit"
    /\ LET i == Len(calc.times) IN
       calc' = [calc EXCEPT
                  !.times = Append(@, ExtractTime(i, calc.interval)),
                  !.tpc = IF i + 1 = calc.total_shots THEN "submitted" ELSE "submit"]
    /\ UNCHANGED <<protoVars, orchVars, pipeVars, disc, pools>>

(***************************************************************************)
(* video_sprite_generator.py: the place of each tile in the sprite, as     *)
(* take_screenshots writes it to the VTT file and as create_sprite pastes  *)
(* the frame.                                                              *)
(***************************************************************************)
\* the largest self.columns and self.rows tried (9 and 9 in the program)
MaxColumns == 3
MaxRows == 3
\* the largest self.max_width and self.max_height tried, in pixels
MaxTile == 2

\* a placement that fills the grid column by column
GridPlacementByColumn(index, columns, max_width, max_height) ==
    <<(index \div columns) * max_width, (index % columns) * max_height>>

\* x = (i % self.columns) * self.max_width;
\* y = (i // self.columns) * self.max_height
GridPlacement(index, columns, max_width, max_height) ==
    <<(index % columns) * max_width, (index \div columns) * max_height>>

\* calc has the fields
\*   columns, rows, max_width, max_height: the attributes of the generator
\*   xywh: the #xywh= values of the cues written so far, in frame order
\*   pasted: the positions create_sprite has pasted at so far, in image order
GridInit ==
    \E c \in 1..MaxColumns : \E r \in 1..MaxRows :
    \E w \in 1..MaxTile : \E h \in 1..MaxTile :
        calc = [columns |-> c,
                rows |-> r,
                max_width |-> w,
                max_height |-> h,
                xywh |-> <<>>,
                pasted |-> <<>>]

\* take_screenshots: the cue of the next frame of a full grid of frames
GridCue ==
    /\ Len(calc.xywh) < calc.columns * calc.rows
    /\ LET i == Len(calc.xywh)
           xy == GridPlacement(i, calc.columns, calc.max_width, calc.max_height)
       IN  calc' = [calc EXCEPT !.xywh =
                       Append(@, <<xy[1], xy[2], calc.max_width, calc.max_height>>)]
    /\ UNCHANGED <<protoVars, orchVars, pipeVars, disc, pools>>

\* create_sprite: the next image is pasted, once every cue is written
GridPaste ==
    /\ Len(calc.xywh) = calc.columns * calc.rows
    /\ Len(calc.pasted) < calc.columns * calc.rows
    /\ LET idx == Len(calc.pasted) IN
       calc' = [calc EXCEPT !.pasted =
                   Append(@, GridPlacement(idx, calc.columns,
                                           calc.max_width, calc.max_height))]
    /\ UNCHANGED <<protoVars, orchVars, pipeVars, disc, pools>>

(***************************************************************************)
(* video_sprite_generator.py: format_time.  A time is a whole number of    *)
(* ticks of 1/16 s: such a time and every value format_time computes from  *)
(* it is a floating-point number without rounding, a tick is finer than a  *)
(* millisecond on the odd ticks (62.5 ms) and a whole number of            *)
(* milliseconds on the even ones.  The result is the sequence of the       *)
(* characters of the string.                                               *)
(***************************************************************************)
TicksPerSecond == 16
\* the largest number of hours tried
MaxFormatHours == 11
\* the minutes and the seconds tried: the first two and the last of 0..59
EdgeSixty == {0, 1, 59}

FormatInputs ==
    {((h * 60 + m) * 60 + sec) * TicksPerSecond + j :
        h \in 0..MaxFormatHours, m \in EdgeSixty, sec \in EdgeSixty,
        j \in 0..(TicksPerSecond - 1)}

DigitChars == <<"0", "1", "2", "3", "4", "5", "6", "7", "8", "9">>

RECURSIVE Decimal(_)
\* the decimal digits of a natural number
Decimal(n) ==
    IF n < 10 THEN <<DigitChars[n + 1]>>
    ELSE Decimal(n \div 10) \o <<DigitChars[(n % 10) + 1]>>

RECURSIVE ZeroPad(_, _)
\* the format specification 0<width>: zeros on the left up to the width
ZeroPad(digits, width) ==
    IF Len(digits) >= width THEN digits ELSE ZeroPad(<<"0">> \o digits, width)

\* the milliseconds rounded to the nearest, halves up
MillisecRounded(ticks) ==
    ((ticks % TicksPerSecond) * 1000 + TicksPerSecond \div 2) \div TicksPerSecond

\* int((seconds % 1) * 1000), the fraction being ticks out of TicksPerSecond
Millisec(ticks) == ((ticks % TicksPerSecond) * 1000) \div TicksPerSecond

format_time(ticks) ==
    LET millisec == Millisec(ticks)
        whole == ticks \div TicksPerSecond
        minutes0 == whole \div 60
        seconds == whole % 60
        hours == minutes0 \div 60
        minutes == minutes0 % 60
    IN  ZeroPad(Decimal(hours), 2) \o <<":">> \o
        ZeroPad(Decimal(minutes), 2) \o <<":">> \o
        ZeroPad(Decimal(seconds), 2) \o <<".">> \o
        ZeroPad(Decimal(millisec), 3)

\* calc has the fields
\*   seconds: the argument of format_time, in ticks
\*   out: the string returned, <<>> before the call
FormatInit ==
    \E t \in FormatInputs : calc = [seconds |-> t, out |-> <<>>]

FormatTime ==
    /\ calc.out = <<>>
    /\ calc' = [calc EXCEPT !.out = format_time(calc.seconds)]
    /\ UNCHANGED <<protoVars, orchVars, pipeVars, disc, pools>>

(***************************************************************************)
(* The two levels of thread pools: the ThreadPoolExecutor of main() that   *)
(* runs process_scene, one per batch, and inside each process_scene the    *)
(* ThreadPoolExecutor of take_screenshots and then that of generate_clips. *)
(* What the invocations compute is left out; an invocation that hangs is   *)
(* one that takes no further step.                                         *)
(***************************************************************************)
\* ThreadPoolExecutor(max_workers=4) in take_screenshots and generate_clips
ExtractWorkers == 4
\* the largest batch tried
MaxPoolItems == 3
\* the largest total_shots and preview_clips tried (81 and 15 in the program)
MaxExtractions == 5

\* the state of a work item of main()'s pool that no worker has taken yet
Queued == [st |-> "pending", step |-> "none", queued |-> 0, running |-> 0,
           abandoned |-> FALSE, tags |-> {}]

PoolItems == 1..Len(pools.item)

\* the invocations of process_scene that have been entered and not left
InProcessScene == {k \in PoolItems : pools.item[k].st = "running"}

\* a pool that starts a thread for every work item submitted
PoolStartsAtOnce(k) ==
    /\ pools.item[k].st = "pending"
    /\ \A j \in PoolItems : j < k => pools.item[j].st # "pending"

\* ThreadPoolExecutor(max_workers=config.max_workers): a work item leaves the
\* queue, in order of submission, when fewer than max_workers threads are busy
PoolCanStart(k) ==
    /\ pools.item[k].st = "pending"
    /\ \A j \in PoolItems : j < k => pools.item[j].st # "pending"
    /\ Cardinality(InProcessScene) < pools.max_workers

\* the inner ThreadPoolExecutor: a queued extraction starts when fewer than
\* ExtractWorkers threads of the invocation's pool are busy
ExtractCanStart(k) ==
    /\ pools.item[k].st = "running"
    /\ pools.item[k].step \in {"sprite", "preview"}
    /\ pools.item[k].queued > 0
    /\ pools.item[k].running < ExtractWorkers

\* the with block of the inner pool is left when every extraction submitted
\* has returned
ExtractionsDone(k) ==
    /\ pools.item[k].st = "running"
    /\ pools.item[k].queued = 0
    /\ pools.item[k].running = 0

\* the numbers of extractions tried: below, at and above the size of the pool
ExtractionCounts == {1, ExtractWorkers, MaxExtractions}

\* executor.shutdown(wait=False): main() goes on at once
PoolTeardownNoWait == TRUE

\* executor.shutdown(wait=True) of main()'s pool
PoolTeardownReady ==
    \A k \in PoolItems : pools.item[k].st \in {"finished", "cancelled"}

\* pools has the fields
\*   ppc: "top" | "wait" | "teardown" | "exited", the position of main()
\*   shutdown_requested: the flag set by signal_handler
\*   max_workers: config.max_workers
\*   once: config.once (--once)
\*   total_shots, preview_clips: the extractions a sprite and a preview submit
\*   item[k]: the k-th work item of the batch's pool:
\*     st: pending | running | finished | cancelled
\*     step: where process_scene is: "none" | "hash" | "sprite" | "preview",
\*       or "file check" once it has returned for a file that is not there
\*     tags: the tags of the item's scene that this process has added
\*     queued, running: the extractions of the step's pool waiting and running
\*     abandoned: main() has timed out waiting for the item
\*   cursor: the future the result loop waits for
PoolInit ==
    \E w \in 1..MaxWorkers :
    \E ns \in ExtractionCounts : \E nc \in ExtractionCounts :
    \E o \in BOOLEAN :
        pools = [ppc |-> "top",
                 shutdown_requested |-> FALSE,
                 max_workers |-> w,
                 once |-> o,
                 total_shots |-> ns,
                 preview_clips |-> nc,
                 item |-> <<>>,
                 cursor |-> 1]

PoolUnchanged == UNCHANGED <<protoVars, orchVars, pipeVars, disc, calc>>

\* signal_handler
PoolSignal ==
    /\ pools.ppc \in {"top", "wait", "teardown"}
    /\ ~pools.shutdown_requested
    /\ pools' = [pools EXCEPT !.shutdown_requested = TRUE]
    /\ PoolUnchanged

\* main(): clean_temp_dirs(), a new pool and one submit per scene of the batch
PoolSubmit ==
    /\ pools.ppc = "top"
    /\ ~pools.shutdown_requested
    /\ \E n \in 1..MaxPoolItems :
          pools' = [pools EXCEPT !.ppc = "wait",
                                 !.item = [k \in 1..n |-> Queued],
                                 !.cursor = 1]
    /\ PoolUnchanged

\* main(): clean_temp_dirs(), discover_scenes returns nothing,
\* clean_temp_dirs(recreate=False) and break
PoolNoScenes ==
    /\ pools.ppc = "top"
    /\ ~pools.shutdown_requested
    /\ pools' = [pools EXCEPT !.ppc = "exited"]
    /\ PoolUnchanged

\* main(): "if shutdown_requested: clean_temp_dirs(recreate=False) ... break"
\* at the top of the loop
PoolExit ==
    /\ pools.ppc = "top"
    /\ pools.shutdown_requested
    /\ pools' = [pools EXCEPT !.ppc = "exited"]
    /\ PoolUnchanged

\* a worker of main()'s pool enters process_scene: without the file it
\* returns before claim_scene, with it claim_scene is called and the try
\* block entered
PoolWorkerStart(k) ==
    /\ pools.ppc \in {"wait", "teardown"}
    /\ k \in PoolItems
    /\ PoolCanStart(k)
    /\ \E file_exists \in BOOLEAN :
          pools' = IF file_exists
                   THEN [pools EXCEPT !.item[k].st = "running",
                                      !.item[k].step = "hash",
                                      !.item[k].tags = claim_scene(@)]
                   ELSE [pools EXCEPT !.item[k].st = "finished",
                                      !.item[k].step = "file check"]
    /\ PoolUnchanged

\* process_scene reaches generate_sprite: take_screenshots submits total_shots
\* extractions to a pool of its own
PoolSpriteSubmit(k) ==
    /\ k \in PoolItems
    /\ pools.item[k].st = "running"
    /\ pools.item[k].step = "hash"
    /\ pools' = [pools EXCEPT !.item[k].step = "sprite",
                              !.item[k].queued = pools.total_shots]
    /\ PoolUnchanged

\* a thread of the invocation's pool takes the next extraction
ExtractStart(k) ==
    /\ k \in PoolItems
    /\ ExtractCanStart(k)
    /\ pools' = [pools EXCEPT !.item[k].queued = @ - 1,
                              !.item[k].running = @ + 1]
    /\ PoolUnchanged

\* an extraction returns
ExtractFinish(k) ==
    /\ k \in PoolItems
    /\ pools.item[k].running > 0
    /\ pools' = [pools EXCEPT !.item[k].running = @ - 1]
    /\ PoolUnchanged

\* the sprite's pool is done; generate_clips submits preview_clips extractions
\* to a pool of its own
PoolPreviewSubmit(k) ==
    /\ k \in PoolItems
    /\ pools.item[k].step = "sprite"
    /\ ExtractionsDone(k)
    /\ pools' = [pools EXCEPT !.item[k].step = "preview",
                              !.item[k].queued = pools.preview_clips]
    /\ PoolUnchanged

\* the preview's pool is done and process_scene returns through its finally
\* block: release_scene
PoolWorkerFinish(k) ==
    /\ k \in PoolItems
    /\ pools.item[k].step = "preview"
    /\ ExtractionsDone(k)
    /\ pools' = [pools EXCEPT !.item[k].st = "finished",
                              !.item[k].step = "none",
                              !.item[k].tags = release_scene(@)]
    /\ PoolUnchanged

\* the result loop: future.result returns for a finished item
PoolResult ==
    /\ pools.ppc = "wait"
    /\ ~pools.shutdown_requested
    /\ pools.cursor \in PoolItems
    /\ pools.item[pools.cursor].st = "finished"
    /\ pools' = [pools EXCEPT !.cursor = @ + 1]
    /\ PoolUnchanged

\* the result loop: future.result(timeout=600) raises TimeoutError; the loop
\* goes on to the next future and the item is left to itself
PoolTimeout ==
    /\ pools.ppc = "wait"
    /\ ~pools.shutdown_requested
    /\ pools.cursor \in PoolItems
    /\ pools.item[pools.cursor].st \in {"pending", "running"}
    /\ pools' = [pools EXCEPT !.item[pools.cursor].abandoned = TRUE,
                              !.cursor = @ + 1]
    /\ PoolUnchanged

\* the result loop sees the flag: executor.shutdown(wait=False,
\* cancel_futures=True); break
PoolShutdownBreak ==
    /\ pools.ppc = "wait"
    /\ pools.shutdown_requested
    /\ pools.cursor \in PoolItems
    /\ pools' = [pools EXCEPT
                    !.ppc = "teardown",
                    !.item = [k \in PoolItems |->
                                IF pools.item[k].st = "pending"
                                THEN [pools.item[k] EXCEPT !.st = "cancelled"]
                                ELSE pools.item[k]]]
    /\ PoolUnchanged

\* the result loop has gone through every future
PoolLoopEnd ==
    /\ pools.ppc = "wait"
    /\ pools.cursor \notin PoolItems
    /\ pools' = [pools EXCEPT !.ppc = "teardown"]
    /\ PoolUnchanged

\* finally: executor.shutdown(wait=True) returns; with --once
\* clean_temp_dirs(recreate=False) and break, else the loop goes back to its
\* top.  (The handler of KeyboardInterrupt, which calls clean_temp_dirs before
\* the finally block, never runs: main() has replaced the handler of SIGINT.)
PoolTeardown ==
    /\ pools.ppc = "teardown"
    /\ PoolTeardownReady
    /\ pools' = [pools EXCEPT !.ppc = IF pools.once THEN "exited" ELSE "top"]
    /\ PoolUnchanged

\* the steps of main() that call clean_temp_dirs
CleansTempDirs ==
    \/ PoolSubmit
    \/ PoolNoScenes
    \/ PoolExit
    \/ PoolTeardown /\ pools.once

(***************************************************************************)
(* video_sprite_generator.py: the caption track and the sprite image of    *)
(* one generate_sprite call whose extractions all succeed.  The image is   *)
(* the function from its pixels to the index of the frame shown there, -1  *)
(* where nothing was pasted.  total_shots may exceed columns * rows.       *)
(***************************************************************************)
\* f'frame_{i:03d}.jpg', as its three digits
FrameFile(i) == <<(i \div 100) % 10, (i \div 10) % 10, i % 10>>

\* the frame a file of the scratch directory holds
FrameOf(name) == name[1] * 100 + name[2] * 10 + name[3]

\* the images in the order the directory lists them
ListedUnsorted(listing) == listing

\* sorted(os.listdir(self.temp_dir))
ListedFrames(listing) == sorted(listing)

\* Image.new('RGB', (sprite_width, sprite_height))
NewImage(width, height) ==
    [p \in (0..(width - 1)) \X (0..(height - 1)) |-> -1]

\* sprite.paste(img, (x, y)) with img of size w x h: the part of the region
\* inside the image is overwritten, the rest is dropped
paste(image, frame, x, y, w, h) ==
    [p \in DOMAIN image |->
        IF p[1] \in x..(x + w - 1) /\ p[2] \in y..(y + h - 1)
        THEN frame ELSE image[p]]

\* calc has the fields
\*   columns, rows, max_width, max_height, total_shots: the generator's attributes
\*   xywh: the #xywh= values of the cues written so far, in frame order
\*   images: the list create_sprite goes through, <<>> before it is built
\*   size: the size of the sprite image, <<>> before Image.new
\*   sprite: the sprite image
\*   pasted: the positions pasted at so far, in image order
\*   saved: sprite.save has run
SheetInit ==
    \E c \in 1..MaxColumns : \E r \in 1..MaxRows :
    \E w \in 1..MaxTile : \E h \in 1..MaxTile :
    \E n \in 1..(c * r + 1) :
        calc = [columns |-> c,
                rows |-> r,
                max_width |-> w,
                max_height |-> h,
                total_shots |-> n,
                xywh |-> <<>>,
                images |-> <<>>,
                size |-> <<>>,
                sprite |-> <<>>,
                pasted |-> <<>>,
                saved |-> FALSE]

CalcUnchanged == UNCHANGED <<protoVars, orchVars, pipeVars, disc, pools>>

\* take_screenshots: the cue of the next frame
SheetCue ==
    /\ Len(calc.xywh) < calc.total_shots
    /\ LET i == Len(calc.xywh)
           xy == GridPlacement(i, calc.columns, calc.max_width, calc.max_height)
       IN  calc' = [calc EXCEPT !.xywh =
                       Append(@, <<xy[1], xy[2], calc.max_width, calc.max_height>>)]
    /\ CalcUnchanged

\* create_sprite: the images are listed, in whatever order the directory
\* gives them, sorted and opened, and the empty sprite is made
SheetOpen ==
    /\ Len(calc.xywh) = calc.total_shots
    /\ calc.size = <<>>
    /\ \E descending \in BOOLEAN :
       LET n == calc.total_shots
           listing == [k \in 1..n |->
                         FrameFile(IF descending THEN n - k ELSE k - 1)]
           sprite_width == calc.max_width * calc.columns
           sprite_height == calc.max_height * calc.rows
       IN  calc' = [calc EXCEPT !.images = ListedFrames(listing),
                                !.size = <<sprite_width, sprite_height>>,
                                !.sprite = NewImage(sprite_width, sprite_height)]
    /\ CalcUnchanged

\* create_sprite: the next image is pasted
SheetPaste ==
    /\ calc.size # <<>>
    /\ Len(calc.pasted) < Len(calc.images)
    /\ LET idx == Len(calc.pasted)
           img == calc.images[idx + 1]
           xy == GridPlacement(idx, calc.columns, calc.max_width, calc.max_height)
       IN  calc' = [calc EXCEPT
                      !.pasted = Append(@, xy),
                      !.sprite = paste(@, FrameOf(img), xy[1], xy[2],
                                       calc.max_width, calc.max_height)]
    /\ CalcUnchanged

\* create_sprite: sprite.save(self.sprite_path)
SheetSave ==
    /\ calc.size # <<>>
    /\ Len(calc.pasted) = Len(calc.images)
    /\ ~calc.saved
    /\ calc' = [calc EXCEPT !.saved = TRUE]
    /\ CalcUnchanged

(***************************************************************************)
(* The specifications.                                                     *)
(***************************************************************************)
Init ==
    /\ ProtoInit /\ matches = Items /\ config_dry_run = FALSE
    /\ retry_errors = {}
    /\ OrchOff /\ PipeOff /\ AuxOff

Next ==
    \/ \E n \in Nodes : CountScenes(n)
    \/ \E n \in Nodes : FetchPage(n)
    \/ \E n \in Nodes : \E i \in Items : StartScene(n, i)
    \/ \E n \in Nodes : \E i \in Items : HashStep(n, i)
    \/ \E n \in Nodes : \E i \in Items : CoverStep(n, i)
    \/ \E n \in Nodes : \E i \in Items : SpriteStep(n, i)
    \/ \E n \in Nodes : \E i \in Items : PreviewStep(n, i)
    \/ \E n \in Nodes : \E i \in Items : ReleaseStep(n, i)
    \/ \E n \in Nodes : BatchEnd(n)

Spec == Init /\ [][Next]_vars

\* the same nodes started with a --filemask that some scenes' file names match
MaskInit ==
    /\ ProtoInit /\ matches \in SUBSET Items /\ config_dry_run = FALSE
    /\ retry_errors = {}
    /\ OrchOff /\ PipeOff /\ AuxOff

MaskSpec == MaskInit /\ [][Next]_vars

\* the same nodes started with --dry-run: apply_cli_args has set config.dry_run
DryInit ==
    /\ ProtoInit /\ matches = Items /\ config_dry_run = TRUE
    /\ retry_errors = {}
    /\ OrchOff /\ PipeOff /\ AuxOff

DrySpec == DryInit /\ [][Next]_vars

\* a catalog with scenes that bear an error tag from earlier runs; one node
\* started with --retry-errors and the other without
RetryInit ==
    /\ tags \in [Items -> {{}, {hashing_error_tag}}]
    /\ phash = [i \in Items |-> FALSE]
    /\ NodesInit
    /\ matches = Items /\ config_dry_run = FALSE
    /\ retry_errors = {SetMax(Nodes)}
    /\ OrchOff /\ PipeOff /\ AuxOff

RetryNext ==
    \/ Next
    \/ \E n \in Nodes : RetryFetch(n)

RetrySpec == RetryInit /\ [][RetryNext]_vars

\* one node alone on a fresh catalog, the other never started; the node's
\* threads are scheduled fairly: a step that can be taken is taken in the end
AloneInit ==
    /\ tags = [i \in Items |-> {}]
    /\ phash = [i \in Items |-> FALSE]
    /\ npc = [n \in Nodes |-> IF n = SetMax(Nodes) THEN "top" ELSE "off"]
    /\ IdleInit
    /\ matches = Items /\ config_dry_run = FALSE
    /\ retry_errors = {}
    /\ OrchOff /\ PipeOff /\ AuxOff

AloneSpec == AloneInit /\ [][Next]_vars /\ WF_vars(Next)

OrchStart == ProtoOff /\ OrchInit /\ PipeOff /\ AuxOff

OrchNext ==
    \/ signal_handler
    \/ ExitOnShutdown
    \/ NoScenes
    \/ StartBatch
    \/ \E k \in Futures : WorkerStart(k)
    \/ \E k \in Futures : WorkerFinish(k)
    \/ Tick
    \/ ObserveShutdown
    \/ BeginWait
    \/ CollectResult
    \/ AwaitTimeout
    \/ LoopEnd
    \/ Teardown

OrchSpec == OrchStart /\ [][OrchNext]_vars

PipeStart == ProtoOff /\ OrchOff /\ PipeInit /\ AuxOff

PipeNext ==
    \/ SpriteCall
    \/ SpriteProbe
    \/ SpriteFrame
    \/ SpriteCreate
    \/ SpriteCleanup
    \/ SpriteReturn
    \/ PreviewCall
    \/ PreviewProbe
    \/ PreviewClip
    \/ PreviewSplice
    \/ PreviewCleanup
    \/ PreviewReturn
    \/ PipeRelease
    \/ PipeNextScene

PipeSpec == PipeStart /\ [][PipeNext]_vars

DiscStart ==
    /\ ProtoOff /\ OrchOff /\ PipeOff
    /\ DiscInit /\ pools = "off" /\ calc = "off"

DiscNext ==
    \/ DiscCount
    \/ DiscFetch
    \/ DiscOtherNodeClaims

DiscSpec == DiscStart /\ [][DiscNext]_vars

\* the single-function specifications start from this but for calc
CalcStart ==
    /\ ProtoOff /\ OrchOff /\ PipeOff
    /\ disc = "off" /\ pools = "off"

ScratchNext == \E k \in BatchItems : DeriveFilehash(k)

ScratchStart == CalcStart /\ ScratchInit

ScratchSpec == ScratchStart /\ [][ScratchNext]_vars

StartTimesNext == GetStartTimes

StartTimesStart == CalcStart /\ StartTimesInit

StartTimesSpec == StartTimesStart /\ [][StartTimesNext]_vars

SampleNext ==
    \/ SampleInterval
    \/ SampleSubmit

SampleStart == CalcStart /\ SampleInit

SampleSpec == SampleStart /\ [][SampleNext]_vars

GridNext ==
    \/ GridCue
    \/ GridPaste

GridStart == CalcStart /\ GridInit

GridSpec == GridStart /\ [][GridNext]_vars

FormatNext == FormatTime

SheetStart == CalcStart /\ SheetInit

SheetNext ==
    \/ SheetCue
    \/ SheetOpen
    \/ SheetPaste
    \/ SheetSave

SheetSpec == SheetStart /\ [][SheetNext]_vars

FormatStart == CalcStart /\ FormatInit

FormatSpec == FormatStart /\ [][FormatNext]_vars

PoolStart ==
    /\ ProtoOff /\ OrchOff /\ PipeOff
    /\ disc = "off" /\ PoolInit /\ calc = "off"

PoolNext ==
    \/ PoolSignal
    \/ PoolSubmit
    \/ PoolNoScenes
    \/ PoolExit
    \/ \E k \in 1..MaxPoolItems : PoolWorkerStart(k)
    \/ \E k \in 1..MaxPoolItems : PoolSpriteSubmit(k)
    \/ \E k \in 1..MaxPoolItems : ExtractStart(k)
    \/ \E k \in 1..MaxPoolItems : ExtractFinish(k)
    \/ \E k \in 1..MaxPoolItems : PoolPreviewSubmit(k)
    \/ \E k \in 1..MaxPoolItems : PoolWorkerFinish(k)
    \/ PoolResult
    \/ PoolTimeout
    \/ PoolShutdownBreak
    \/ PoolLoopEnd
    \/ PoolTeardown

PoolSpec == PoolStart /\ [][PoolNext]_vars


(***************************************************************************)
(* Claims about the claim protocol (specification Spec).                   *)
(***************************************************************************)
\* the step in which the invocation of node n for scene i exits
Exits(n, i) == pl[n][i].pc \notin {"none", "done"} /\ pl'[n][i].pc = "done"

\* C1, as stated: every invocation whose claim_scene completed has invoked
\* release_scene exactly once when it exits, by the return or by an exception,
\* and the scene does not bear hashing_tag after the exit.
C1_ReleasedAndUntaggedOnExit ==
    [][\A n \in Nodes : \A i \in Items :
          (Exits(n, i) /\ pl'[n][i].claimed)
              => (pl'[n][i].releases = 1 /\ hashing_tag \notin tags'[i])]_vars

\* C1, amended: every invocation whose claim_scene completed has invoked
\* release_scene exactly once when it exits, on every path; the scene does not
\* bear hashing_tag after the exit when that release call did not fail.
C1_ReleasedOnEveryExit ==
    [][\A n \in Nodes : \A i \in Items :
          (Exits(n, i) /\ pl'[n][i].claimed)
              => /\ pl'[n][i].releases = 1
                 /\ pl'[n][i].relOk => hashing_tag \notin tags'[i]]_vars

\* C1, witness: an invocation that claimed, left the try block by an exception
\* raised in an error handler, released in the finally block and has exited.
C1_Witness ==
    \E n \in Nodes : \E i \in Items :
        /\ pl[n][i].pc = "done"
        /\ pl[n][i].claimed /\ pl[n][i].exc
        /\ pl[n][i].releases = 1 /\ pl[n][i].relOk
        /\ hashing_tag \notin tags[i]

C4_MissingFileLeavesClaimTagAlone ==
    \A n \in Nodes : \A i \in Items :
        (pl[n][i].pc = "done" /\ pl[n][i].missing /\ ~pl[n][i].exc)
            => /\ hashing_error_tag \in tags[i]
               /\ ~pl[n][i].success
               /\ pl[n][i].ops = {}

\* C32: a step of an invocation that has claimed its scene and has not reached
\* its final release_scene never removes hashing_tag from the scene.
C32_TagHeldUntilRelease ==
    [][\A n \in Nodes : \A i \in Items :
          (/\ pl[n][i].claimed
           /\ pl[n][i].pc \in {"hash", "cover", "sprite", "preview"}
           /\ pl'[n][i] # pl[n][i]
           /\ hashing_tag \in tags[i])
              => hashing_tag \in tags'[i]]_vars

\* C33: a step of a node removes hashing_tag from a scene only when that node
\* is between its own claim_scene and release_scene for the scene and no
\* other node is.
C33_RemovesOnlyOwnTag ==
    [][\A n \in Nodes : \A i \in Items :
          (/\ pl'[n][i] # pl[n][i]
           /\ hashing_tag \in tags[i]
           /\ hashing_tag \notin tags'[i])
              => /\ InProgress(n, i)
                 /\ \A m \in Nodes \ {n} : ~InProgress(m, i)]_vars

\* the scene has a phash or bears an error tag: SceneFilter rejects it
\* whatever becomes of hashing_tag
Settled(i) ==
    phash[i] \/ tags[i] \cap {hashing_error_tag, cover_error_tag} # {}

\* C35: as long as no catalog call about a scene has failed, the scene has a
\* phash or bears an error tag when an invocation of process_scene for it
\* exits, it stays so, and no node fetches it in a batch afterwards.
C35_ProcessedLeavesFilter ==
    [][\A i \in Items :
          catFailed'[i] = 0 =>
             /\ \A n \in Nodes : Exits(n, i) => Settled(i)'
             /\ Settled(i) => Settled(i)'
             /\ \A n \in Nodes :
                   (i \in batch'[n] /\ i \notin batch[n]) => ~Settled(i)]_vars

\* C35, witness: two invocations have returned with no catalog call failing,
\* one after setting the phash of its scene and one after tagging its scene
\* with hashing_error_tag, and the node is back at the top of its loop with
\* nothing left to select.
C35_Witness ==
    /\ \A i \in Items : catFailed[i] = 0 /\ Settled(i)
    /\ \E i \in Items : phash[i] /\ tags[i] = {}
    /\ \E i \in Items : ~phash[i] /\ tags[i] = {hashing_error_tag}
    /\ \E n \in Nodes : npc[n] = "top" /\ nbatch >= 2

(***************************************************************************)
(* Claims about one node alone (specification AloneSpec).                  *)
(***************************************************************************)
\* C36: a node alone on the catalog, with no filemask and no dry run, in the
\* end has a catalog call fail or leaves its main loop with no scene matching
\* the discovery filter.
C36_EventuallyNoWork ==
    <>(\/ \E i \in Items : catFailed[i] > 0
       \/ /\ npc[SetMax(Nodes)] = "exited"
          /\ all_scenes = {})

\* C36, witness: the node has left its loop after two batches with no catalog
\* call failing, one scene with a phash and one tagged as a failure.
C36_Witness ==
    /\ npc[SetMax(Nodes)] = "exited"
    /\ nbatch >= 2
    /\ all_scenes = {}
    /\ \A i \in Items : catFailed[i] = 0
    /\ \E i \in Items : phash[i]
    /\ \E i \in Items : hashing_error_tag \in tags[i]

(***************************************************************************)
(* Claims about nodes started with --retry-errors (specification           *)
(* RetrySpec).                                                             *)
(***************************************************************************)
\* C34: no batch of any node, made by discover_scenes or by get_error_scenes,
\* holds a scene that bore hashing_tag when the batch was fetched.
C34_TaggedNeverSelected ==
    \A n \in Nodes : taggedAtFetch[n] = {}

(***************************************************************************)
(* Claims about the orchestrator (specification OrchSpec).                 *)
(***************************************************************************)
Hung == {k \in Futures : will[k] = "hangs"}

\* the result loop has gone through every future and main() is in its finally block
LoopDone == mpc = "teardown" /\ cursor > Len(fut)

\* the result loop was left by the break that follows the observed flag
Broke == mpc = "teardown" /\ cursor <= Len(fut)

\* the k-th invocation has run for more than ItemTimeout since it started
RanLong(k) == ranLong[k] \/ (fut[k] = "running" /\ age[k] > ItemTimeout)

\* C5, as stated: with exactly one invocation that never returns, once the result
\* loop is through and every other invocation has returned, the pool teardown
\* gets through and the batch iteration ends.
C5_BatchCompletesDespiteHang ==
    ( /\ LoopDone
      /\ Cardinality(Hung) = 1
      /\ \A k \in Futures \ Hung : fut[k] = "finished" )
        => TeardownReady

\* C6, as stated: with exactly one invocation that never returns and every other
\* one succeeding (within the timeout), the statistics after the result loop are
\* N-1 successes and 1 failure, for any pool size.
C6_OneHangOneFailure ==
    ( /\ LoopDone
      /\ Cardinality(Hung) = 1
      /\ \A k \in Futures \ Hung : will[k] = "success" /\ ~RanLong(k) )
        => (successful = Len(fut) - 1 /\ failed = 1)

\* C7, as stated: an invocation whose result wait has timed out holds no worker
\* of the pool: as many workers are free as if it had finished.
C7_TimeoutFreesWorker ==
    \A k \in Futures : recorded[k] = "timeout" => k \notin Running

\* C8, as stated: an invocation that ran for more than ItemTimeout is never
\* recorded as a success.
C8_LongRunNeverSuccess ==
    \A k \in Futures : recorded[k] = "success" => ~RanLong(k)

\* C9, as stated: once the flag is set, no queued scene starts its process_scene.
C9_NoStartAfterFlag ==
    [][shutdown_requested =>
          \A k \in Futures :
              (fut[k] = "pending" /\ k \in DOMAIN fut') => fut'[k] # "running"]_vars

\* C10: when the result loop observes the flag, every queued future is cancelled
\* and the running ones are left alone; a cancelled future never runs; the
\* teardown waits for the running invocations only.
C10_ShutdownCancelsQueued ==
    [][/\ (mpc = "loop" /\ shutdown_requested /\ mpc' = "teardown" /\ cursor <= Len(fut))
            => \A k \in Futures :
                  /\ fut[k] = "pending" => fut'[k] = "cancelled"
                  /\ fut[k] = "running" => fut'[k] = "running"
       /\ \A k \in Futures :
             (fut[k] = "cancelled" /\ k \in DOMAIN fut') => fut'[k] = "cancelled"
       /\ (Broke /\ Running = {}) => TeardownReady
       /\ (mpc = "teardown" /\ mpc' = "top")
            => \A k \in Futures : fut[k] \in {"finished", "cancelled"}]_vars

\* C10, witness: after the break, a cancelled scene, and a scene that was left
\* running and has returned without being awaited; the teardown can return.
C10_Witness ==
    /\ Broke
    /\ TeardownReady
    /\ \E k \in Futures : fut[k] = "cancelled"
    /\ \E j \in Futures : j >= cursor /\ fut[j] = "finished" /\ recorded[j] = "none"

C12_OneOutcomePerItem ==
    [][/\ successful + failed <= total_scenes
       /\ (mpc \in {"loop", "wait"}) => successful + failed = cursor - 1
       /\ LoopDone => successful + failed = total_scenes
       /\ (mpc = "top" /\ mpc' = "loop")
            => (successful' = 0 /\ failed' = 0 /\ total_scenes' = Len(fut'))]_vars

\* C12, witness: a batch of three has been awaited to its end, with a success,
\* a returned failure and a timeout in it.
C12_Witness ==
    /\ LoopDone
    /\ ~shutdown_requested
    /\ total_scenes = 3
    /\ successful = 1
    /\ failed = 2
    /\ \E k \in Futures : recorded[k] = "timeout"
    /\ \E k \in Futures : recorded[k] = "failure"

(***************************************************************************)
(* Claims about discovery with a filemask (specification MaskSpec).        *)
(***************************************************************************)
\* C20, as stated: when the fetched page holds scenes and the filemask accepts
\* none of them, the main loop does not take this for "no scenes to process"
\* and exit.
C20_EmptyAfterFilterIsNotNoWork ==
    [][\A n \in Nodes :
          ( /\ npc[n] = "fetch"
            /\ batch_scenes(selPage[n]) # {}
            /\ filtered_scenes(batch_scenes(selPage[n])) = {}
            /\ \E i \in matches : SceneFilter(i) )
             => npc'[n] # "exited"]_vars

(***************************************************************************)
(* Claims about a run with --dry-run (specification DrySpec).              *)
(***************************************************************************)
\* C28: a program started with --dry-run mutates nothing in the catalog and
\* runs no fingerprinting subprocess: no scene gets or loses a tag, none gets
\* a phash, and the fingerprinting step runs on none.
C28_DryRunMutatesNothing ==
    config_dry_run =>
        \A i \in Items : tags[i] = {} /\ ~phash[i] /\ fpRuns[i] = 0

(***************************************************************************)
(* Claims about discover_scenes (specification DiscSpec).                  *)
(***************************************************************************)
\* C21: an empty id-only query returns an empty batch without a second query;
\* otherwise the page count is the count divided by the page size, rounded
\* up, every page from 1 to the page count can be drawn and the drawn page
\* is one of them, only that page is fetched, and at most page_size scenes
\* are returned.
C21_OnePageOfCeilPages ==
    LET d == disc
        n == Cardinality(d.catalog)
    IN  /\ (d.dpc = "count" /\ n = 0) => ENABLED DiscSelect(0)
        /\ (d.dpc = "count" /\ n > 0) =>
              \A p \in 1..MaxScenes :
                 (ENABLED DiscSelect(p))
                    <=> (p * d.page_size < n + d.page_size)
        /\ (d.dpc = "returned" /\ d.total_count = 0) =>
              (d.result = <<>> /\ d.fetched = {})
        /\ (d.dpc # "count" /\ d.total_count > 0) =>
              /\ d.total_pages * d.page_size >= d.total_count
              /\ (d.total_pages - 1) * d.page_size < d.total_count
              /\ d.selected_page \in 1..d.total_pages
              /\ d.fetched \subseteq {d.selected_page}
              /\ Len(d.result) <= d.page_size
        /\ (d.dpc = "returned" /\ d.total_count > 0) =>
              d.fetched = {d.selected_page}

\* C21, witness: four scenes at page size 2 make two pages; the second was
\* drawn and fetched, and came back full.
C21_Witness ==
    /\ disc.dpc = "returned"
    /\ disc.total_count = 4
    /\ disc.page_size = 2
    /\ disc.total_pages = 2
    /\ disc.selected_page = 2
    /\ Len(disc.result) = 2

(***************************************************************************)
(* Claims about the scratch directories (specification ScratchSpec).       *)
(***************************************************************************)
\* C23, as stated: any two distinct scenes of a batch, two scenes with the same
\* oshash value included, have different sprite scratch directories and
\* different preview scratch directories.
C23_DistinctScratchDirs ==
    \A k \in BatchItems : \A j \in BatchItems :
        (k # j /\ calc.named[k] /\ calc.named[j])
            => /\ SpriteTempDir(calc.filehash[k]) # SpriteTempDir(calc.filehash[j])
               /\ PreviewTempDir(calc.filehash[k]) # PreviewTempDir(calc.filehash[j])

(***************************************************************************)
(* Claims about get_start_times (specification StartTimesSpec).            *)
(***************************************************************************)
\* C24: for a duration greater than skip + clip length, get_start_times
\* returns num_clips values, strictly increasing, each within
\* [skip, duration - clip length], the i-th being
\* skip + i * (duration - skip - clip length) / (num_clips + 1).
C24_StartTimes ==
    LET d == calc.video_duration
        sk == calc.skip_seconds
        cl == calc.clip_length
        n == calc.num_clips
        st == calc.start_times
    IN  (calc.called /\ d > sk + cl) =>
           /\ Len(st) = n
           /\ \A i \in 1..(n - 1) : FracLess(st[i], st[i + 1])
           /\ \A i \in 1..n : FracLeq(Frac(sk), st[i]) /\ FracLeq(st[i], Frac(d - cl))
           /\ \A i \in 1..n :
                 FracEq(st[i], <<sk * (n + 1) + i * (d - sk - cl), n + 1>>)

\* C24, witness: three clips of length 1 after a skip of 2 in a video of 7
\* ticks start at 3, 4 and 5.
C24_Witness ==
    /\ calc.called
    /\ calc.video_duration = 7 /\ calc.skip_seconds = 2
    /\ calc.clip_length = 1 /\ calc.num_clips = 3
    /\ Len(calc.start_times) = 3
    /\ \A i \in 1..3 : FracEq(calc.start_times[i], Frac(2 + i))

(***************************************************************************)
(* Claims about the frame timestamps (specification SampleSpec).           *)
(***************************************************************************)
\* C25: for a positive duration, take_screenshots has total_shots frames
\* extracted, the i-th (from 0) at i * (duration / total_shots): the first at
\* 0 and each next one duration / total_shots later.
C25_SampleTimestamps ==
    LET d == calc.duration
        n == calc.total_shots
        t == calc.times
    IN  /\ Len(t) <= n
        /\ (d > 0 /\ calc.tpc \notin {"start", "submit"}) =>
              (calc.tpc = "submitted" /\ Len(t) = n)
        /\ \A k \in 1..Len(t) : FracEq(t[k], <<(k - 1) * d, n>>)
        /\ Len(t) >= 1 => FracEq(t[1], Frac(0))
        /\ \A k \in 1..(Len(t) - 1) : FracEq(t[k + 1], FracAdd(t[k], <<d, n>>))

\* C25, witness: four frames of a video of 6 ticks, the last at 4.5 ticks.
C25_Witness ==
    /\ calc.tpc = "submitted"
    /\ calc.duration = 6
    /\ calc.total_shots = 4
    /\ Len(calc.times) = 4
    /\ FracEq(calc.times[4], <<9, 2>>)

(***************************************************************************)
(* Claims about the tile grid (specification GridSpec).                    *)
(***************************************************************************)
\* C26: the tile of index i lies in column i mod columns and row i div columns,
\* at x = column * width and y = row * height; no two indexes below
\* columns * rows share a place; the tile of index columns is at
\* (0, height, width, height).  The cue of a frame and the paste of its image
\* name the same place.
C26_GridPlacement ==
    LET c == calc.columns
        w == calc.max_width
        h == calc.max_height
        q == calc.xywh
    IN  /\ \A k \in 1..Len(q) :
              \E col \in 0..(c - 1) : \E row \in 0..(calc.rows - 1) :
                 /\ k - 1 = row * c + col
                 /\ q[k] = <<col * w, row * h, w, h>>
        /\ \A k \in 1..Len(q) : \A j \in 1..Len(q) :
              <<q[k][1], q[k][2]>> = <<q[j][1], q[j][2]>> => k = j
        /\ Len(q) > c => q[c + 1] = <<0, h, w, h>>
        /\ \A k \in 1..Len(calc.pasted) :
              calc.pasted[k] = <<q[k][1], q[k][2]>>

\* C26, witness: a grid of 3 columns and 2 rows of 2 x 1 tiles with every
\* cue written and every image pasted, the fourth at (0, 1).
C26_Witness ==
    /\ calc.columns = 3 /\ calc.rows = 2
    /\ calc.max_width = 2 /\ calc.max_height = 1
    /\ Len(calc.xywh) = 6 /\ Len(calc.pasted) = 6
    /\ calc.xywh[4] = <<0, 1, 2, 1>>
    /\ calc.xywh[6] = <<4, 1, 2, 1>>

(***************************************************************************)
(* Claims about the sprite and its caption track (specification SheetSpec).*)
(***************************************************************************)
\* C31: the sprite is columns * max_width wide and rows * max_height high;
\* in the saved sprite, for every index i below columns * rows that has a
\* frame, the rectangle of cue i lies inside the sprite, is where image i was
\* pasted, and shows frame i at every pixel; no pixel shows a frame of index
\* columns * rows or more.
C31_SpriteMatchesCaptions ==
    LET c == calc.columns
        r == calc.rows
        w == calc.max_width
        h == calc.max_height
        q == calc.xywh
    IN  /\ calc.size # <<>> =>
              /\ calc.size = <<c * w, r * h>>
              /\ DOMAIN calc.sprite = (0..(c * w - 1)) \X (0..(r * h - 1))
              /\ \A p \in DOMAIN calc.sprite : calc.sprite[p] < c * r
        /\ calc.saved =>
              \A i \in 0..(c * r - 1) :
                 i < calc.total_shots =>
                    /\ calc.pasted[i + 1] = <<q[i + 1][1], q[i + 1][2]>>
                    /\ <<q[i + 1][3], q[i + 1][4]>> = <<w, h>>
                    /\ \A dx \in 0..(w - 1) : \A dy \in 0..(h - 1) :
                          LET p == <<q[i + 1][1] + dx, q[i + 1][2] + dy>> IN
                          p \in DOMAIN calc.sprite /\ calc.sprite[p] = i

\* C31, witness: a saved sprite of 2 columns and 2 rows of 2 x 1 tiles made
\* from five frames: the fourth frame fills the last tile and the fifth is
\* nowhere.
C31_Witness ==
    /\ calc.columns = 2 /\ calc.rows = 2
    /\ calc.max_width = 2 /\ calc.max_height = 1
    /\ calc.total_shots = 5
    /\ calc.saved
    /\ calc.xywh[4] = <<2, 1, 2, 1>>
    /\ calc.sprite[<<2, 1>>] = 3 /\ calc.sprite[<<3, 1>>] = 3
    /\ calc.pasted[5] = <<0, 2>>

C29_BoundedAtBothLevels ==
    /\ Cardinality({k \in PoolItems : pools.item[k].st = "running"})
          <= pools.max_workers
    /\ \A k \in PoolItems :
          /\ pools.item[k].running <= 4
          /\ pools.item[k].st # "running" => pools.item[k].running = 0

\* C29, witness: a pool of two workers, both busy, one of them with an item
\* main() has timed out on, a third item waiting in the queue, and an
\* invocation with four extractions running and a fifth waiting.
C29_Witness ==
    /\ pools.max_workers = 2
    /\ Cardinality(InProcessScene) = 2
    /\ \E k \in InProcessScene : pools.item[k].abandoned
    /\ \E k \in PoolItems : pools.item[k].st = "pending"
    /\ \E k \in InProcessScene :
          pools.item[k].running = 4 /\ pools.item[k].queued > 0

\* C30: no step of main() that calls clean_temp_dirs is taken while an
\* invocation of process_scene of this process is under way, be it one main()
\* has timed out on or one that was running when the shutdown was requested.
C30_NoWipeWhileInFlight ==
    [][CleansTempDirs => InProcessScene = {}]_vars

\* C30, witness: the shutdown has been requested and main() is in
\* executor.shutdown(wait=True) while an invocation it had timed out on is
\* still extracting.
C30_Witness ==
    /\ pools.ppc = "teardown"
    /\ pools.shutdown_requested
    /\ \E k \in InProcessScene :
          pools.item[k].abandoned /\ pools.item[k].running > 0

\* C39: whenever main() is at the top of its loop or has left it, by the
\* shutdown flag, by --once or for want of work, every invocation of
\* process_scene it has started has returned and no scene bears a processing
\* tag this process has added.
C39_ExitLeavesNoClaim ==
    pools.ppc \in {"top", "exited"} =>
        \A k \in PoolItems :
            /\ pools.item[k].st \in {"finished", "cancelled"}
            /\ hashing_tag \notin pools.item[k].tags

\* C39, witness: main() has left its loop after a shutdown request; of its
\* last batch one item was cancelled in the queue and one, which main() had
\* timed out on, has gone through claim_scene and the whole pipeline.
C39_Witness ==
    /\ pools.ppc = "exited"
    /\ pools.shutdown_requested
    /\ \E k \in PoolItems : pools.item[k].st = "cancelled"
    /\ \E k \in PoolItems :
          /\ pools.item[k].abandoned
          /\ pools.item[k].st = "finished"
          /\ pools.item[k].step = "none"

(***************************************************************************)
(* Claims about the artifact pipelines (specification PipeSpec).           *)
(***************************************************************************)
\* generate_preview has gone through its clip loop, every extraction having
\* written its clip or exited non-zero
ClipsSettled ==
    /\ gprobe = "ok"
    /\ Len(clipOc) = num_clips
    /\ \A k \in 1..num_clips : clipOc[k] \in {"ok", "nonzero"}

Survivors == {i \in 0..(num_clips - 1) : clipOc[i + 1] = "ok"}

\* C13: when some extractions exit non-zero and at least one clip survives,
\* the concat command is run exactly once, on exactly the surviving clips, in
\* ascending order of their file names.
C13_SpliceOfSurvivors ==
    ( /\ gpc \in {"cleanup", "exited"}
      /\ ClipsSettled
      /\ Survivors # {} )
        => /\ spliceCalls = 1
           /\ Len(spliceArg) = Cardinality(Survivors)
           /\ Range(spliceArg) = {ClipFile(i) : i \in Survivors}
           /\ \A a \in 1..Len(spliceArg) : \A b \in 1..Len(spliceArg) :
                 a < b => NameLess(spliceArg[a], spliceArg[b])

\* C13, witness: of three requested clips the second exited non-zero and the
\* concat command ran once on the two others.
C13_Witness ==
    /\ gpc = "exited"
    /\ clipOc = <<"ok", "nonzero", "ok">>
    /\ spliceCalls = 1
    /\ spliceArg = <<ClipFile(0), ClipFile(2)>>

\* C14, as stated: when every clip extraction exits non-zero, generate_preview
\* is left by an exception and no preview file is written.
C14_NoClipsRaises ==
    (gpc = "exited" /\ ClipsSettled /\ Survivors = {})
        => (graised /\ ~preview_file)

\* C15, as stated: after generate_preview has exited, its scratch directory
\* does not exist.
C15_PreviewScratchRemoved ==
    gpc = "exited" => ~gtemp

\* C16: when a frame extraction fails, create_sprite is never called, no sprite
\* file is written and generate_sprite is left by an exception.
C16_FrameFailureAbortsSprite ==
    (spc = "exited" /\ \E k \in 1..Len(frames) : frames[k] = "fail")
        => (createCalls = 0 /\ ~sprite_file /\ sraised)

\* C16, witness: the second frame failed after the first was extracted.
C16_Witness ==
    /\ spc = "exited"
    /\ frames = <<"ok", "fail">>
    /\ sraised
    /\ ~sprite_file

\* C17: after generate_sprite has exited, by its return or by an exception,
\* its scratch directory does not exist.
C17_SpriteScratchRemoved ==
    spc = "exited" => ~stemp

\* C17, witness: generate_sprite made its scratch directory, extracted every
\* frame, failed in create_sprite and has exited.
C17_Witness ==
    /\ spc = "exited"
    /\ Len(frames) = total_shots
    /\ createCalls = 1
    /\ sraised
    /\ ~stemp

\* C22: the strategy main() chose before its loop never changes, and every
\* frame extraction, every clip extraction and every concat command of every
\* scene runs with it, the concat command of a preview with the strategy of
\* that preview's clip extractions.
C22_OneStrategyPerRun ==
    [][/\ vaapi_supported' = vaapi_supported
       /\ frameModes' \subseteq {vaapi_supported}
       /\ clipModes' \subseteq {vaapi_supported}
       /\ spliceModes' \subseteq clipModes']_vars

\* C22, witness: a run with the hardware strategy in which the worker's second
\* scene has had frames, clips and a concat command, after a first scene that
\* had them too.
C22_Witness ==
    /\ vaapi_supported
    /\ nscene = 2
    /\ frames # <<>> /\ clipOc # <<>> /\ spliceCalls = 1
    /\ frameModes = {TRUE} /\ clipModes = {TRUE} /\ spliceModes = {TRUE}

\* C18, as stated: when the probe gives no duration, generate_sprite is left
\* by an exception and process_scene ends with success cleared.
C18_NoDurationRaises ==
    /\ (spc = "exited" /\ sprobe = "malformed") => sraised
    /\ (ppc = "done" /\ sprobe = "malformed") => ~psuccess

\* a pipeline was run for the scene and its artifact is not there
ArtifactMissing ==
    \/ spc = "exited" /\ ~sprite_file
    \/ gpc = "exited" /\ ~preview_file

\* C19, as stated: when a pipeline run for the scene has not produced its
\* artifact, the scene ends with the error tag, success cleared, and released.
C19_FailedArtifactFailsItem ==
    (ppc = "done" /\ ArtifactMissing)
        => /\ hashing_error_tag \in ptags
           /\ ~psuccess
           /\ hashing_tag \notin ptags

\* C37: process_scene returns success exactly when it applied no error tag and
\* the sprite and the preview it was asked for are there.
C37_SuccessIffAllProduced ==
    ppc = "done" =>
        (psuccess <=>
            /\ ptags \cap {hashing_error_tag, cover_error_tag} = {}
            /\ generate_sprite => sprite_file
            /\ generate_preview => preview_file)

\* C38: after generate_sprite has exited with a frame extraction failed or
\* with no duration, neither the sprite file nor the VTT file exists.
C38_SpriteAndCaptionsTogether ==
    (/\ spc = "exited"
     /\ \/ sprobe = "malformed"
        \/ \E k \in 1..Len(frames) : frames[k] = "fail")
        => (~sprite_file /\ ~vtt_file)

====
